---------------------------- MODULE Spec2Model ----------------------------
(***************************************************************************)
(* A model of librarylint.py: title normalisation, quality scoring,        *)
(* content fingerprints and the two duplicate detectors with their         *)
(* reports.                                                                *)
(*                                                                         *)
(* Strings are sequences of one-character strings, so that the regular     *)
(* expressions and substring tests of the source act on characters, as     *)
(* they do in the program.                                                 *)
(***************************************************************************)
EXTENDS Integers, Sequences, FiniteSets, TLC

(***************************************************************************)
(* Characters and strings                                                  *)
(***************************************************************************)
UpperCase == <<"A", "B", "C", "D", "E", "F", "G", "H", "I", "J", "K", "L", "M",
               "N", "O", "P", "Q", "R", "S", "T", "U", "V", "W", "X", "Y", "Z">>

LowerCase == <<"a", "b", "c", "d", "e", "f", "g", "h", "i", "j", "k", "l", "m",
               "n", "o", "p", "q", "r", "s", "t", "u", "v", "w", "x", "y", "z">>

Digits == {"0", "1", "2", "3", "4", "5", "6", "7", "8", "9"}

\* \s of the re module, on the characters the model uses.
Whitespace == {" "}

Range(s) == {s[k] : k \in 1..Len(s)}

\* The lower-case letter of every upper-case letter.
LowerOf ==
    [c \in {UpperCase[k] : k \in 1..26} |->
        LowerCase[CHOOSE k \in 1..26 : UpperCase[k] = c]]

\* str.lower() of one character.
lower_char(c) == IF c \in DOMAIN LowerOf THEN LowerOf[c] ELSE c

\* str.lower()
lower(s) == [k \in 1..Len(s) |-> lower_char(s[k])]

\* s[i:] of Python, i counted from 1.
Suffix(s, i) == SubSeq(s, i, Len(s))

\* s[:i-1] of Python, i counted from 1: what precedes position i.
Prefix(s, i) == SubSeq(s, 1, i - 1)

\* s.startswith(t) at position i.
StartsAt(s, t, i) ==
    /\ i + Len(t) - 1 <= Len(s)
    /\ \A k \in 1..Len(t) : s[i + k - 1] = t[k]

\* `t in s` of Python.
Contains(s, t) == \E i \in 1..(Len(s) + 1) : StartsAt(s, t, i)

\* any(x in s for x in ts)
ContainsAny(s, ts) == \E t \in ts : Contains(s, t)

\* str.strip() on the model's whitespace.
RECURSIVE lstrip(_)
lstrip(s) ==
    IF s # <<>> /\ s[1] \in Whitespace THEN lstrip(Tail(s)) ELSE s

RECURSIVE rstrip(_)
rstrip(s) ==
    IF s # <<>> /\ s[Len(s)] \in Whitespace
    THEN rstrip(SubSeq(s, 1, Len(s) - 1))
    ELSE s

strip(s) == rstrip(lstrip(s))

(***************************************************************************)
(* Regular expressions.  A pattern is a set of alternatives; an            *)
(* alternative is a sequence of items; an item matches one character of    *)
(* the set cs (any character when any is TRUE), once ("1"), at most once   *)
(* ("?") or any number of times ("*").                                     *)
(***************************************************************************)
One(chars) == [cs |-> chars, any |-> FALSE, q |-> "1"]
Opt(chars) == [cs |-> chars, any |-> FALSE, q |-> "?"]
Star(chars) == [cs |-> chars, any |-> FALSE, q |-> "*"]
AnyStar == [cs |-> {}, any |-> TRUE, q |-> "*"]

\* The items of a literal string.
Lit(s) == [k \in 1..Len(s) |-> One({s[k]})]

\* Whether item it matches character c; ic is re.IGNORECASE.
ItemMatches(it, c, ic) ==
    \/ it.any
    \/ c \in it.cs
    \/ ic /\ \E d \in it.cs : lower_char(d) = lower_char(c)

\* The positions at which a match of alt[k..] that starts at position i of s
\* can end (the position after its last character).
RECURSIVE Ends(_, _, _, _, _)
Ends(alt, k, s, i, ic) ==
    IF k > Len(alt) THEN {i}
    ELSE LET it == alt[k]
             here == i <= Len(s) /\ ItemMatches(it, s[i], ic)
         IN CASE it.q = "1" ->
                     IF here THEN Ends(alt, k + 1, s, i + 1, ic) ELSE {}
              [] it.q = "?" ->
                     Ends(alt, k + 1, s, i, ic)
                       \cup (IF here THEN Ends(alt, k + 1, s, i + 1, ic) ELSE {})
              [] it.q = "*" ->
                     Ends(alt, k + 1, s, i, ic)
                       \cup (IF here THEN Ends(alt, k, s, i + 1, ic) ELSE {})

\* Whether some alternative of pat matches s from position i on.
MatchesAt(pat, s, i, ic) == \E alt \in pat : Ends(alt, 1, s, i, ic) # {}

\* re.search(pat, s): whether there is a match.
re_search(pat, s, ic) == \E i \in 1..(Len(s) + 1) : MatchesAt(pat, s, i, ic)

\* The start of the leftmost match of pat in s from position i on; 0 when
\* there is none.
RECURSIVE re_search_from(_, _, _, _)
re_search_from(pat, s, i, ic) ==
    IF i > Len(s) + 1 THEN 0
    ELSE IF MatchesAt(pat, s, i, ic) THEN i
    ELSE re_search_from(pat, s, i + 1, ic)

\* The start of the leftmost match of pat in s; 0 when there is none.
re_search_start(pat, s, ic) == re_search_from(pat, s, 1, ic)

\* re.match of ^pat$ : the whole of s is one match.
re_fullmatch(pat, s, ic) ==
    \E alt \in pat : (Len(s) + 1) \in Ends(alt, 1, s, 1, ic)

\* re.sub(pat, '', s) for a pattern that ends in .*$ : the leftmost match runs
\* to the end of s, so s is cut at the start of that match.
cut_at(s, i) == IF i = 0 THEN s ELSE Prefix(s, i)

re_sub_to_end(pat, s, ic) == cut_at(s, re_search_start(pat, s, ic))

\* re.sub of every character in chars by a space.
re_sub_chars(chars, s) ==
    [k \in 1..Len(s) |-> IF s[k] \in chars THEN " " ELSE s[k]]

\* re.sub(r'\s+', ' ', s)
RECURSIVE re_sub_spaces(_)
re_sub_spaces(s) ==
    IF s = <<>> THEN <<>>
    ELSE IF s[1] \in Whitespace
         THEN <<" ">> \o re_sub_spaces(lstrip(s))
         ELSE <<s[1]>> \o re_sub_spaces(Tail(s))

(***************************************************************************)
(* get_normalized_title                                                    *)
(***************************************************************************)
\* Python's None, as a value that compares with any string.
None == <<"None">>

\* Path(name).stem, for a name that holds no path separator: the name
\* without its last suffix; a leading or a trailing dot starts no suffix.
PathStem(name) ==
    LET dots == {k \in 1..Len(name) : name[k] = "."}
        j == IF dots = {} THEN 0
             ELSE CHOOSE k \in dots : \A m \in dots : m <= k
    IN IF 1 < j /\ j < Len(name) THEN Prefix(name, j) ELSE name

\* (19|20)\d{2}
re_year == {Lit(<<"1", "9">>) \o <<One(Digits), One(Digits)>>,
            Lit(<<"2", "0">>) \o <<One(Digits), One(Digits)>>}

\* [\(\[]?(19|20)\d{2}[\)\]]?.*$
re_year_to_end ==
    {<<Opt({"(", "["})>> \o y \o <<Opt({")", "]"}), AnyStar>> : y \in re_year}

s_720p == <<"7", "2", "0", "p">>
s_1080p == <<"1", "0", "8", "0", "p">>
s_2160p == <<"2", "1", "6", "0", "p">>
s_4K == <<"4", "K">>
s_HDRip == <<"H", "D", "R", "i", "p">>
s_DVDRip == <<"D", "V", "D", "R", "i", "p">>
s_BRRip == <<"B", "R", "R", "i", "p">>
s_BluRay == <<"B", "l", "u", "R", "a", "y">>
s_WEB_DL == <<"W", "E", "B", "-", "D", "L">>
s_WEBRip == <<"W", "E", "B", "R", "i", "p">>
s_x264 == <<"x", "2", "6", "4">>
s_x265 == <<"x", "2", "6", "5">>
s_HEVC == <<"H", "E", "V", "C">>

TitleQualityTags ==
    {s_720p, s_1080p, s_2160p, s_4K, s_HDRip, s_DVDRip, s_BRRip, s_BluRay,
     s_WEB_DL, s_WEBRip, s_x264, s_x265, s_HEVC}

\* \s*(720p|1080p|...|HEVC).*$
re_quality_to_end ==
    {<<Star(Whitespace)>> \o Lit(t) \o <<AnyStar>> : t \in TitleQualityTags}

\* ^(the|a|an)\s+
re_article ==
    {Lit(a) \o <<One(Whitespace), Star(Whitespace)>> :
        a \in {<<"t", "h", "e">>, <<"a">>, <<"a", "n">>}}

\* The largest element of a non-empty set of integers.
Max(S) == CHOOSE x \in S : \A y \in S : y <= x

\* re.sub(r'^(the|a|an)\s+', '', title): a match at the start of the title
\* (\s+ is greedy) is removed.
cut_before(s, ends) == IF ends = {} THEN s ELSE Suffix(s, Max(ends))

strip_article(title) ==
    cut_before(title, UNION {Ends(alt, 1, title, 1, FALSE) : alt \in re_article})

\* The year get_normalized_title reports: the leftmost match of (19|20)\d{2}
\* in the stem, or None.
year_at(s, i) == IF i = 0 THEN None ELSE SubSeq(s, i, i + 3)

year_of(basename) == year_at(basename, re_search_start(re_year, basename, FALSE))

\* The title of a stem (lines 1414-1428): the substitutions in their order.
title_of(basename) ==
    strip_article(
      lower(strip(
        re_sub_spaces(
          re_sub_chars({"_", "-"},
            re_sub_chars({"."},
              re_sub_to_end(re_quality_to_end,
                re_sub_to_end(re_year_to_end, basename, FALSE),
                TRUE)))))))

normalized(basename) ==
    [normalized_title |-> title_of(basename), year |-> year_of(basename)]

get_normalized_title(name) == normalized(PathStem(name))

(***************************************************************************)
(* String literals of the scorer: k_ the lower-case keywords looked for in  *)
(* a file name, s_ the labels and the words of the prober's patterns.       *)
(***************************************************************************)
k_4k == <<"4", "k">>
k_uhd == <<"u", "h", "d">>
k_480p == <<"4", "8", "0", "p">>
k_dvd == <<"d", "v", "d">>
k_av1 == <<"a", "v", "1">>
k_h265 == <<"h", "2", "6", "5">>
k_h_dot_265 == <<"h", ".", "2", "6", "5">>
k_hevc == <<"h", "e", "v", "c">>
k_vp9 == <<"v", "p", "9">>
k_h264 == <<"h", "2", "6", "4">>
k_h_dot_264 == <<"h", ".", "2", "6", "4">>
k_avc == <<"a", "v", "c">>
k_xvid == <<"x", "v", "i", "d">>
k_divx == <<"d", "i", "v", "x">>
k_atmos == <<"a", "t", "m", "o", "s">>
k_dts == <<"d", "t", "s">>
k_dtsx == <<"d", "t", "s", "x">>
k_truehd == <<"t", "r", "u", "e", "h", "d">>
k_dts_dash_hd == <<"d", "t", "s", "-", "h", "d">>
k_dtshd == <<"d", "t", "s", "h", "d">>
k_hd == <<"h", "d">>
k_ma == <<"m", "a">>
k_eac3 == <<"e", "a", "c", "3">>
k_ddp == <<"d", "d", "p">>
k_dd_plus == <<"d", "d", "+">>
k_ac3 == <<"a", "c", "3">>
k_dd5_dot_1 == <<"d", "d", "5", ".", "1">>
k_flac == <<"f", "l", "a", "c">>
k_aac == <<"a", "a", "c">>
k_dolby == <<"d", "o", "l", "b", "y">>
k_vision == <<"v", "i", "s", "i", "o", "n">>
k_dovi == <<"d", "o", "v", "i">>
k_dv == <<"d", "v">>
k_hdr == <<"h", "d", "r">>
k_dot_dv_dot == <<".", "d", "v", ".">>
k_hdr10_plus == <<"h", "d", "r", "1", "0", "+">>
k_hdr10plus == <<"h", "d", "r", "1", "0", "p", "l", "u", "s">>
k_hdr10 == <<"h", "d", "r", "1", "0">>
k_hlg == <<"h", "l", "g">>
k_remux == <<"r", "e", "m", "u", "x">>
k_bluray == <<"b", "l", "u", "r", "a", "y">>
k_blu_dash_ray == <<"b", "l", "u", "-", "r", "a", "y">>
k_bdrip == <<"b", "d", "r", "i", "p">>
k_brrip == <<"b", "r", "r", "i", "p">>
k_web_dash_dl == <<"w", "e", "b", "-", "d", "l">>
k_webdl == <<"w", "e", "b", "d", "l">>
k_webrip == <<"w", "e", "b", "r", "i", "p">>
k_hdtv == <<"h", "d", "t", "v">>
k_dvdrip == <<"d", "v", "d", "r", "i", "p">>
k_2160p == <<"2", "1", "6", "0", "p">>
k_1080p == <<"1", "0", "8", "0", "p">>
k_720p == <<"7", "2", "0", "p">>
k_x264 == <<"x", "2", "6", "4">>
k_x265 == <<"x", "2", "6", "5">>
k_opus == <<"o", "p", "u", "s">>
k_mpeg_dash_4 == <<"m", "p", "e", "g", "-", "4">>
k_vc_dash_1 == <<"v", "c", "-", "1">>
k_wmv == <<"w", "m", "v">>
k_e_dash_ac_dash_3 == <<"e", "-", "a", "c", "-", "3">>
k_ac_dash_3 == <<"a", "c", "-", "3">>

s_Unknown == <<"U", "n", "k", "n", "o", "w", "n">>
s_AV1 == <<"A", "V", "1">>
s_HEVC_slash_x265 == <<"H", "E", "V", "C", "/", "x", "2", "6", "5">>
s_VP9 == <<"V", "P", "9">>
s_XviD == <<"X", "v", "i", "D">>
s_VC_dash_1 == <<"V", "C", "-", "1">>
s_Atmos == <<"A", "t", "m", "o", "s">>
s_DTS_colon_X == <<"D", "T", "S", ":", "X">>
s_TrueHD == <<"T", "r", "u", "e", "H", "D">>
s_DTS_dash_HD == <<"D", "T", "S", "-", "H", "D">>
s_DTS == <<"D", "T", "S">>
s_EAC3 == <<"E", "A", "C", "3">>
s_AC3 == <<"A", "C", "3">>
s_FLAC == <<"F", "L", "A", "C">>
s_AAC == <<"A", "A", "C">>
s_Opus == <<"O", "p", "u", "s">>
s_Dolby_sp_Vision == <<"D", "o", "l", "b", "y", " ", "V", "i", "s", "i", "o", "n">>
s_HDR10_plus == <<"H", "D", "R", "1", "0", "+">>
s_HDR10 == <<"H", "D", "R", "1", "0">>
s_HLG == <<"H", "L", "G">>
s_HDR == <<"H", "D", "R">>
s_Remux == <<"R", "e", "m", "u", "x">>
s_HDTV == <<"H", "D", "T", "V">>
s_Filename == <<"F", "i", "l", "e", "n", "a", "m", "e">>
s_MediaInfo == <<"M", "e", "d", "i", "a", "I", "n", "f", "o">>
s_480p == <<"4", "8", "0", "p">>
s_SMPTE_sp_ST_sp_2094 == <<"S", "M", "P", "T", "E", " ", "S", "T", " ", "2", "0", "9", "4">>
s_SMPTE_sp_ST_sp_2086 == <<"S", "M", "P", "T", "E", " ", "S", "T", " ", "2", "0", "8", "6">>
s_ARIB_sp_STD_dash_B67 == <<"A", "R", "I", "B", " ", "S", "T", "D", "-", "B", "6", "7">>
s_PQ == <<"P", "Q">>
s_SMPTE_sp_ST_sp_2084 == <<"S", "M", "P", "T", "E", " ", "S", "T", " ", "2", "0", "8", "4">>
s_BT_dot_2020 == <<"B", "T", ".", "2", "0", "2", "0">>
s_us_Trailers == <<"_", "T", "r", "a", "i", "l", "e", "r", "s">>
s_General == <<"G", "e", "n", "e", "r", "a", "l">>
s_Video == <<"V", "i", "d", "e", "o">>
s_Audio == <<"A", "u", "d", "i", "o">>
s_High_sp_Bitrate == <<"H", "i", "g", "h", " ", "B", "i", "t", "r", "a", "t", "e">>
s_Good_sp_Bitrate == <<"G", "o", "o", "d", " ", "B", "i", "t", "r", "a", "t", "e">>
s_Moderate_sp_Bitrate == <<"M", "o", "d", "e", "r", "a", "t", "e", " ", "B", "i", "t", "r", "a", "t", "e">>
s_Low_sp_Bitrate == <<"L", "o", "w", " ", "B", "i", "t", "r", "a", "t", "e">>

(***************************************************************************)
(* Files and the MediaInfo CLI.                                            *)
(*                                                                         *)
(* A file is a record                                                      *)
(*   name      its name, with its suffix                                   *)
(*   is_file   whether the path names a regular file                       *)
(*   content   its content, a sequence of blocks of sample_size bytes      *)
(*   readable  whether open() succeeds on it                               *)
(*   mi        what `mediainfo --Output=JSON` does on it: run is "ok",     *)
(*             "nonzero" (exit code), "garbage" (output json.loads or      *)
(*             int() raises on) or "hangs" (the process never exits),      *)
(*             tracks the tracks of the JSON answer                        *)
(*   hdrq      what the three --Inform queries of                          *)
(*             get_mediainfo_hdr_format answer (stripped), or run          *)
(*             "raises", or run "hangs"                                    *)
(* A track holds the fields the scorer reads; an empty string or 0 is a    *)
(* field the track does not carry.                                         *)
(***************************************************************************)
Track(type, Format, Width, Height, HDR_Format, colour_primaries,
      OverallBitRate, Channels) ==
    [type |-> type, Format |-> Format, Width |-> Width, Height |-> Height,
     HDR_Format |-> HDR_Format, colour_primaries |-> colour_primaries,
     OverallBitRate |-> OverallBitRate, Channels |-> Channels]

NoTracks == [run |-> "nonzero", tracks |-> <<>>]

NoHdrAnswer == [run |-> "ok", format |-> <<>>, transfer |-> <<>>, primaries |-> <<>>]

\* file_path = None
NoPath == [name |-> <<>>, is_file |-> FALSE, content |-> <<>>,
           at_read |-> <<>>, readable |-> FALSE,
           mi |-> NoTracks, hdrq |-> NoHdrAnswer]

\* config.mediainfo_path is set and exists.
test_mediainfo_installation(cfg) == cfg.mediainfo_path

\* The last element of seq, or default when seq is empty.
LastOr(seq, default) == IF seq = <<>> THEN default ELSE seq[Len(seq)]

OfType(tracks, type) == SelectSeq(tracks, LAMBDA t : t.type = type)

\* The resolution label of a height.
RECURSIVE str_int(_)
str_int(n) ==
    LET d == <<"0", "1", "2", "3", "4", "5", "6", "7", "8", "9">>
    IN IF n < 10 THEN <<d[n + 1]>> ELSE str_int(n \div 10) \o <<d[(n % 10) + 1]>>

resolution_label(height) ==
    IF height >= 2160 THEN k_2160p
    ELSE IF height >= 1080 THEN k_1080p
    ELSE IF height >= 720 THEN k_720p
    ELSE IF height >= 480 THEN k_480p
    ELSE IF height > 0 THEN str_int(height) \o <<"p">>
    ELSE s_Unknown

\* A result without attributes that is taken for an answer.
NoMediaInfoAnswered(w) ==
    [some |-> TRUE, warned |-> w, video_codec |-> s_Unknown,
     audio_codec |-> s_Unknown, resolution |-> s_Unknown, width |-> 0,
     height |-> 0, bitrate |-> 0, hdr |-> FALSE, audio_channels |-> 0]

\* A None result of get_mediainfo_details, after w calls of log_warning.
NoMediaInfo(w) ==
    [some |-> FALSE, warned |-> w, video_codec |-> s_Unknown,
     audio_codec |-> s_Unknown, resolution |-> s_Unknown, width |-> 0,
     height |-> 0, bitrate |-> 0, hdr |-> FALSE, audio_channels |-> 0]

\* get_mediainfo_details: some is FALSE for a None result; warned counts the
\* log_warning calls of the except branch.  duration, frame_rate and
\* container, which no caller in the scorer reads, are left out.
get_mediainfo_details(cfg, file) ==
    LET none(w) == NoMediaInfo(w)
        tracks == file.mi.tracks
        general == OfType(tracks, s_General)
        video == OfType(tracks, s_Video)
        audio == OfType(tracks, s_Audio)
        bitrates == SelectSeq(general, LAMBDA t : t.OverallBitRate # 0)
        formats == SelectSeq(video, LAMBDA t : t.Format # <<>>)
        widths == SelectSeq(video, LAMBDA t : t.Width # 0)
        heights == SelectSeq(video, LAMBDA t : t.Height # 0)
        height == LastOr(heights, [Height |-> 0]).Height
    IN IF ~test_mediainfo_installation(cfg) THEN none(0)
       ELSE IF file.mi.run = "garbage" THEN none(1)
       ELSE IF file.mi.run = "nonzero" THEN none(0)
       ELSE IF tracks = <<>> THEN none(0)
       ELSE [some |-> TRUE, warned |-> 0,
             video_codec |-> LastOr(formats, [Format |-> s_Unknown]).Format,
             audio_codec |->
                 IF audio # <<>> /\ audio[1].Format # <<>>
                 THEN audio[1].Format ELSE s_Unknown,
             resolution |-> resolution_label(height),
             width |-> LastOr(widths, [Width |-> 0]).Width,
             height |-> height,
             bitrate |-> LastOr(bitrates, [OverallBitRate |-> 0]).OverallBitRate,
             hdr |-> \E k \in 1..Len(video) :
                         \/ video[k].HDR_Format # <<>>
                         \/ Contains(video[k].colour_primaries, s_BT_dot_2020),
             audio_channels |->
                 IF audio # <<>> THEN audio[1].Channels ELSE 0]

\* Dolby Vision|DOVI
re_dolby_vision == {Lit(s_Dolby_sp_Vision), Lit(k_dovi)}
\* HDR10\+|SMPTE ST 2094
re_hdr10_plus == {Lit(s_HDR10_plus), Lit(s_SMPTE_sp_ST_sp_2094)}
\* SMPTE ST 2086|HDR10
re_hdr10 == {Lit(s_SMPTE_sp_ST_sp_2086), Lit(s_HDR10)}
\* HLG|ARIB STD-B67
re_hlg == {Lit(s_HLG), Lit(s_ARIB_sp_STD_dash_B67)}

\* get_mediainfo_hdr_format: some is FALSE for a None result, format is
\* result['format'].
hdr_answer(cfg, q, format) ==
    IF ~test_mediainfo_installation(cfg)
    THEN [some |-> FALSE, warned |-> 0, format |-> <<>>]
    ELSE IF q.run = "raises"
    THEN [some |-> FALSE, warned |-> 1, format |-> <<>>]
    ELSE [some |-> format # <<>>, warned |-> 0, format |-> format]

\* result['format'] of get_mediainfo_hdr_format from the three answers q.
hdr_format_of(q) ==
            IF q.format # <<>>
            THEN IF re_search(re_dolby_vision, q.format, TRUE) THEN s_Dolby_sp_Vision
                 ELSE IF re_search(re_hdr10_plus, q.format, TRUE) THEN s_HDR10_plus
                 ELSE IF re_search(re_hdr10, q.format, TRUE) THEN s_HDR10
                 ELSE IF re_search(re_hlg, q.format, TRUE) THEN s_HLG
                 ELSE q.format
            ELSE IF q.transfer # <<>>
            THEN IF Contains(q.transfer, s_PQ) \/ Contains(q.transfer, s_SMPTE_sp_ST_sp_2084)
                 THEN s_HDR10
                 ELSE IF Contains(q.transfer, s_HLG) THEN s_HLG
                 ELSE <<>>
            ELSE IF q.primaries # <<>> /\ Contains(q.primaries, s_BT_dot_2020)
            THEN s_HDR
            ELSE <<>>

get_mediainfo_hdr_format(cfg, file) ==
    hdr_answer(cfg, file.hdrq, hdr_format_of(file.hdrq))

(***************************************************************************)
(* get_quality_score                                                       *)
(***************************************************************************)
VARIABLES
    scored,           \* the dict the last call of get_quality_score returned
    calls             \* how many calls of get_quality_score have returned

\* One entry of quality['details']: the category it scores, the name it
\* prints, where the value came from and the points of its "(+n)".
Detail(cat, name, via, points) ==
    [cat |-> cat, name |-> name, via |-> via, points |-> points]

\* The points added to the score without an entry in the rationale.
AddPointsUnlisted(q, cat, name, via, points) ==
    [q EXCEPT !.score = @ + points]

\* quality['score'] += points; quality['details'].append(...)
AddPoints(q, cat, name, via, points) ==
    [q EXCEPT !.score = @ + points,
              !.details = Append(@, Detail(cat, name, via, points))]

\* quality[field] = label, then the points and the detail.
Award(q, field, label, via, points) ==
    AddPoints([q EXCEPT ![field] = label], field, label, via, points)

\* The index of the first row of an ordered table whose pattern is found in
\* s (a dict is walked in insertion order); 0 when no row matches.
FirstRow(table, s, ic) ==
    LET hits == {k \in 1..Len(table) : re_search(table[k].pattern, s, ic)}
    IN IF hits = {} THEN 0 ELSE CHOOSE k \in hits : \A m \in hits : k <= m

Row(pattern, name, points) == [pattern |-> pattern, name |-> name, points |-> points]

\* H\.?265 and H\.?264
re_h(digits) == <<One({"H"}), Opt({"."})>> \o Lit(digits)

codec_map ==
    <<Row({Lit(k_hevc), re_h(<<"2", "6", "5">>)}, s_HEVC_slash_x265, 20),
      Row({Lit(k_avc), re_h(<<"2", "6", "4">>)}, k_x264, 15),
      Row({Lit(k_av1)}, s_AV1, 25),
      Row({Lit(k_vp9)}, s_VP9, 18),
      Row({Lit(k_mpeg_dash_4), Lit(k_divx), Lit(k_xvid)}, s_XviD, 5),
      Row({Lit(k_vc_dash_1), Lit(k_wmv)}, s_VC_dash_1, 8)>>

audio_map ==
    <<Row({Lit(k_atmos)}, s_Atmos, 15),
      Row({Lit(k_truehd)}, s_TrueHD, 12),
      Row({Lit(k_dts_dash_hd), Lit(k_dts) \o <<AnyStar>> \o Lit(k_hd)}, s_DTS_dash_HD, 10),
      Row({Lit(k_dts) \o <<AnyStar, One({"X"})>>, Lit(s_DTS_colon_X)}, s_DTS_colon_X, 14),
      Row({Lit(k_e_dash_ac_dash_3), Lit(k_eac3)}, s_EAC3, 7),
      Row({Lit(k_ac_dash_3), Lit(k_ac3)}, s_AC3, 5),
      Row({Lit(k_aac)}, s_AAC, 3),
      Row({Lit(k_flac)}, s_FLAC, 6),
      Row({Lit(k_opus)}, s_Opus, 4)>>

\* The rows of audio_map before and after ^DTS$, which must match the whole
\* string: the first matching row of the dict, in its order.
pick_audio_row(audio_codec, before, after) ==
    IF before # 0 THEN audio_map[before]
    ELSE IF re_fullmatch({Lit(k_dts)}, audio_codec, TRUE) THEN Row({}, s_DTS, 8)
    ELSE IF after # 0 THEN audio_map[after + 4]
    ELSE Row({}, s_Unknown, 0)

audio_row(audio_codec) ==
    pick_audio_row(audio_codec,
        FirstRow(SubSeq(audio_map, 1, 4), audio_codec, TRUE),
        FirstRow(SubSeq(audio_map, 5, Len(audio_map)), audio_codec, TRUE))

\* Every HDR format worth the same.
hdr_points_flat(format) == 10

\* hdr_scores.get(format, 10)
hdr_points(format) ==
    IF format = s_Dolby_sp_Vision THEN 18
    ELSE IF format = s_HDR10_plus THEN 16
    ELSE IF format = s_HDR10 THEN 12
    ELSE 10

\* The dict literal of lines 720-734.
quality_fresh ==
    [score |-> 0, resolution |-> s_Unknown, codec |-> s_Unknown,
     source |-> s_Unknown, audio |-> s_Unknown, hdr |-> FALSE,
     hdr_format |-> None, bitrate |-> 0, width |-> 0, height |-> 0,
     audio_channels |-> 0, details |-> <<>>, data_source |-> s_Filename]

\* The dict of the last call, as a dict kept at module level would be.
quality_kept == scored

\* quality = {...}: every call builds a new dict.
quality_init == quality_fresh

\* Resolution from the probed height (lines 748-769).
score_resolution_mediainfo(q, height) ==
    LET via == "MediaInfo"
    IN IF height >= 2160 THEN Award(q, "resolution", k_2160p, via, 100)
       ELSE IF height >= 1080 THEN Award(q, "resolution", k_1080p, via, 80)
       ELSE IF height >= 720 THEN Award(q, "resolution", k_720p, via, 60)
       ELSE IF height >= 480 THEN Award(q, "resolution", k_480p, via, 40)
       ELSE IF height > 0
            THEN Award(q, "resolution", str_int(height) \o <<"p">>, via, 20)
       ELSE q

\* Video codec from the probed format (lines 771-791).
award_codec(q, video_codec, vrow) ==
    IF video_codec = <<>> THEN q
    ELSE IF vrow # 0
         THEN Award(q, "codec", codec_map[vrow].name, "MediaInfo",
                    codec_map[vrow].points)
    ELSE Award(q, "codec", video_codec, "MediaInfo", 10)

score_codec_mediainfo(q, video_codec) ==
    award_codec(q, video_codec, FirstRow(codec_map, video_codec, TRUE))

\* Audio codec from the probed format (lines 793-815).
award_audio(q, audio_codec, arow) ==
    IF audio_codec = <<>> \/ arow.points = 0 THEN q
    ELSE Award(q, "audio", arow.name, "MediaInfo", arow.points)

score_audio_mediainfo(q, audio_codec) ==
    award_audio(q, audio_codec, audio_row(audio_codec))

\* HDR from the probe (lines 817-835).
award_hdr_mediainfo(q, media_info, hdr_format) ==
    IF ~media_info.hdr THEN q
    ELSE IF hdr_format.some
         THEN Award([q EXCEPT !.hdr = TRUE], "hdr_format",
                    hdr_format.format, "MediaInfo", hdr_points(hdr_format.format))
    ELSE AddPoints([q EXCEPT !.hdr = TRUE], "hdr_format", s_HDR, "MediaInfo", 10)

score_hdr_mediainfo(cfg, q, media_info, file_path) ==
    award_hdr_mediainfo(q, media_info, get_mediainfo_hdr_format(cfg, file_path))

\* Bitrate bonus (lines 837-851): bitrate / 1000000 >= 40, and so on.
score_bitrate(q) ==
    LET via == "MediaInfo"
        bitrate == q.bitrate
    IN IF bitrate >= 40000000
            THEN AddPoints(q, "bitrate", s_High_sp_Bitrate, via, 20)
       ELSE IF bitrate >= 20000000
            THEN AddPoints(q, "bitrate", s_Good_sp_Bitrate, via, 15)
       ELSE IF bitrate >= 10000000
            THEN AddPoints(q, "bitrate", s_Moderate_sp_Bitrate, via, 10)
       ELSE IF bitrate >= 5000000
            THEN AddPoints(q, "bitrate", s_Low_sp_Bitrate, via, 5)
       ELSE q

\* The MediaInfo branch (lines 741-851).
score_from_mediainfo(cfg, q0, media_info, file_path) ==
    score_bitrate(
      score_hdr_mediainfo(cfg,
        score_audio_mediainfo(
          score_codec_mediainfo(
            score_resolution_mediainfo(
              [q0 EXCEPT !.data_source = s_MediaInfo,
                         !.width = media_info.width,
                         !.height = media_info.height,
                         !.bitrate = media_info.bitrate,
                         !.audio_channels = media_info.audio_channels],
              media_info.height),
            media_info.video_codec),
          media_info.audio_codec),
        media_info, file_path))

\* dts[\s.\-]?x|dtsx
re_dtsx == {Lit(k_dts) \o <<Opt({" ", ".", "-"}), One({"x"})>>, Lit(k_dtsx)}
\* dts-hd|dtshd|dts[\s.\-]?hd[\s.\-]?ma
re_dtshd ==
    {Lit(k_dts_dash_hd), Lit(k_dtshd),
     Lit(k_dts) \o <<Opt({" ", ".", "-"})>> \o Lit(k_hd)
        \o <<Opt({" ", ".", "-"})>> \o Lit(k_ma)}
\* dolby[\s.\-]?vision|dovi|dv[\s.\-]hdr|\.dv\.
re_dv ==
    {Lit(k_dolby) \o <<Opt({" ", ".", "-"})>> \o Lit(k_vision),
     Lit(k_dovi),
     Lit(k_dv) \o <<One({" ", ".", "-"})>> \o Lit(k_hdr),
     Lit(k_dot_dv_dot)}
\* hdr10\+|hdr10plus
re_hdr10plus == {Lit(k_hdr10_plus), Lit(k_hdr10plus)}

\* Resolution from the file name (lines 858-874); f is filename.lower().
score_resolution_filename(q, f) ==
    LET via == "Filename"
    IN IF ContainsAny(f, {k_2160p, k_4k, k_uhd})
            THEN Award(q, "resolution", k_2160p, via, 100)
       ELSE IF Contains(f, k_1080p) THEN Award(q, "resolution", k_1080p, via, 80)
       ELSE IF Contains(f, k_720p) THEN Award(q, "resolution", k_720p, via, 60)
       ELSE IF ContainsAny(f, {k_480p, k_dvd})
            THEN Award(q, "resolution", k_480p, via, 40)
       ELSE q

\* Video codec from the file name (lines 876-896).
score_codec_filename(q, f) ==
    LET via == "Filename"
    IN IF Contains(f, k_av1) THEN Award(q, "codec", s_AV1, via, 25)
       ELSE IF ContainsAny(f, {k_x265, k_h265, k_h_dot_265, k_hevc})
            THEN Award(q, "codec", s_HEVC_slash_x265, via, 20)
       ELSE IF Contains(f, k_vp9) THEN Award(q, "codec", s_VP9, via, 18)
       ELSE IF ContainsAny(f, {k_x264, k_h264, k_h_dot_264, k_avc})
            THEN Award(q, "codec", k_x264, via, 15)
       ELSE IF ContainsAny(f, {k_xvid, k_divx})
            THEN Award(q, "codec", s_XviD, via, 5)
       ELSE q

\* Audio codec from the file name (lines 898-934).
score_audio_filename(q, f) ==
    LET via == "Filename"
    IN IF Contains(f, k_atmos) THEN Award(q, "audio", s_Atmos, via, 15)
       ELSE IF re_search(re_dtsx, f, FALSE)
            THEN Award(q, "audio", s_DTS_colon_X, via, 14)
       ELSE IF Contains(f, k_truehd) THEN Award(q, "audio", s_TrueHD, via, 12)
       ELSE IF re_search(re_dtshd, f, FALSE)
            THEN Award(q, "audio", s_DTS_dash_HD, via, 10)
       ELSE IF Contains(f, k_dts) THEN Award(q, "audio", s_DTS, via, 8)
       ELSE IF ContainsAny(f, {k_eac3, k_ddp, k_dd_plus})
            THEN Award(q, "audio", s_EAC3, via, 7)
       ELSE IF ContainsAny(f, {k_ac3, k_dd5_dot_1})
            THEN Award(q, "audio", s_AC3, via, 5)
       ELSE IF Contains(f, k_flac) THEN Award(q, "audio", s_FLAC, via, 6)
       ELSE IF Contains(f, k_aac) THEN Award(q, "audio", s_AAC, via, 3)
       ELSE q

\* quality['hdr'] = True; quality['hdr_format'] = format; the points.
award_hdr(q, format, points) ==
    Award([q EXCEPT !.hdr = TRUE], "hdr_format", format, "Filename", points)

\* HDR from the file name (lines 936-961).
score_hdr_filename(q, f) ==
    IF re_search(re_dv, f, FALSE) THEN award_hdr(q, s_Dolby_sp_Vision, 18)
    ELSE IF re_search(re_hdr10plus, f, FALSE) THEN award_hdr(q, s_HDR10_plus, 16)
    ELSE IF Contains(f, k_hdr10) THEN award_hdr(q, s_HDR10, 12)
    ELSE IF Contains(f, k_hlg) THEN award_hdr(q, s_HLG, 10)
    ELSE IF Contains(f, k_hdr) THEN award_hdr(q, s_HDR, 10)
    ELSE q

\* The filename branch (lines 854-961); f is filename.lower().
score_from_filename(q0, f) ==
    score_hdr_filename(
      score_audio_filename(
        score_codec_filename(
          score_resolution_filename([q0 EXCEPT !.data_source = s_Filename], f),
          f),
        f),
      f)

\* Source scoring, always from the file name (lines 963-988).
score_source(q, f) ==
    LET via == "Filename"
    IN IF Contains(f, k_remux) THEN Award(q, "source", s_Remux, via, 35)
       ELSE IF ContainsAny(f, {k_bluray, k_blu_dash_ray, k_bdrip, k_brrip})
            THEN Award(q, "source", s_BluRay, via, 30)
       ELSE IF ContainsAny(f, {k_web_dash_dl, k_webdl})
            THEN Award(q, "source", s_WEB_DL, via, 25)
       ELSE IF Contains(f, k_webrip) THEN Award(q, "source", s_WEBRip, via, 20)
       ELSE IF Contains(f, k_hdtv) THEN Award(q, "source", s_HDTV, via, 15)
       ELSE IF Contains(f, k_dvdrip) THEN Award(q, "source", s_DVDRip, via, 10)
       ELSE q

\* The log_warning calls one call of get_quality_score makes.
probe_warnings(cfg, file_path, media_info) ==
    media_info.warned
      + (IF media_info.some /\ media_info.hdr
         THEN get_mediainfo_hdr_format(cfg, file_path).warned ELSE 0)

quality_warnings(cfg, file_path) ==
    IF file_path.name # <<>> /\ file_path.is_file
    THEN probe_warnings(cfg, file_path, get_mediainfo_details(cfg, file_path))
    ELSE 0

\* Whether a call of get_quality_score never returns: subprocess.run is
\* given no timeout (lines 411-414 and 496-517), so it waits for as long as
\* the mediainfo process runs.
probe_hangs(file_path, media_info) ==
    \/ file_path.mi.run = "hangs"
    \/ media_info.some /\ media_info.hdr /\ file_path.hdrq.run = "hangs"

probe_blocks(cfg, file_path) ==
    /\ file_path.name # <<>>
    /\ file_path.is_file
    /\ test_mediainfo_installation(cfg)
    /\ probe_hangs(file_path, get_mediainfo_details(cfg, file_path))

\* The file name's codec keywords scored on top of the prober's attributes.
score_with_both_paths(cfg, f, file_path, media_info) ==
    score_source(
        IF media_info.some
        THEN score_codec_filename(
                 score_from_mediainfo(cfg, quality_init, media_info, file_path), f)
        ELSE score_from_filename(quality_init, f),
        f)

\* The source scored in the filename branch only.
score_with_source_in_branch(cfg, f, file_path, media_info) ==
    IF media_info.some
    THEN score_from_mediainfo(cfg, quality_init, media_info, file_path)
    ELSE score_source(score_from_filename(quality_init, f), f)

\* get_quality_score(filename, file_path): the dict it returns.
\* The two branches (lines 741 and 854), then the source.
score_with(cfg, f, file_path, media_info) ==
    score_source(
        IF media_info.some
        THEN score_from_mediainfo(cfg, quality_init, media_info, file_path)
        ELSE score_from_filename(quality_init, f),
        f)

get_quality_score(cfg, filename, file_path) ==
    score_with(cfg, lower(filename), file_path,
        IF file_path.name # <<>> /\ file_path.is_file
        THEN get_mediainfo_details(cfg, file_path)
        ELSE NoMediaInfo(0))

(***************************************************************************)
(* Config                                                                  *)
(***************************************************************************)
ext_dot_mp4 == <<".", "m", "p", "4">>
ext_dot_mkv == <<".", "m", "k", "v">>
ext_dot_avi == <<".", "a", "v", "i">>
ext_dot_mov == <<".", "m", "o", "v">>
ext_dot_wmv == <<".", "w", "m", "v">>
ext_dot_flv == <<".", "f", "l", "v">>
ext_dot_m4v == <<".", "m", "4", "v">>
ext_dot_webm == <<".", "w", "e", "b", "m">>

\* Config.video_extensions
video_extensions ==
    {ext_dot_mp4, ext_dot_mkv, ext_dot_avi, ext_dot_mov, ext_dot_wmv,
     ext_dot_flv, ext_dot_m4v, ext_dot_webm}

(***************************************************************************)
(* get_file_partial_hash                                                   *)
(***************************************************************************)
\* The sample size of get_file_partial_hash in bytes, scaled down from
\* 1024 * 1024: a file of at most 2 * SampleSize bytes is hashed whole.
SampleSize == 2

\* str(n).encode(): the ASCII codes of the decimal digits of n.
RECURSIVE encode_int(_)
encode_int(n) ==
    IF n < 10 THEN <<48 + n>> ELSE encode_int(n \div 10) \o <<48 + (n % 10)>>

\* os.path.getsize / stat().st_size
file_size_of(file) == Len(file.content)

\* The two samples of a large file hashed without its size.
hash_input_without_size(file_size, data, sample_size) ==
    IF file_size <= sample_size * 2 THEN data
    ELSE SubSeq(data, 1, sample_size)
           \o SubSeq(data, Len(data) - sample_size + 1, Len(data))

\* The bytes get_file_partial_hash feeds to the hasher for a file whose
\* measured size is file_size and which holds data when it is read: all of
\* f.read() for a small file, else f.read(sample_size), the sample_size
\* bytes before the end, and str(file_size).
hash_input(file_size, data, sample_size) ==
    IF file_size <= sample_size * 2 THEN data
    ELSE SubSeq(data, 1, sample_size)
           \o SubSeq(data, Len(data) - sample_size + 1, Len(data))
           \o encode_int(file_size)

\* A fingerprint that is None.
NoHash == [some |-> FALSE, hex |-> <<>>]

\* Whether the try block raises: the file is gone or open() is refused, or
\* f.seek(-sample_size, 2) would move before the start of a file that holds
\* less than sample_size bytes by now.  A read of fewer bytes than asked for
\* raises nothing.
hash_raises(file, sample_size) ==
    \/ ~file.readable
    \/ /\ file_size_of(file) > sample_size * 2
       /\ Len(file.at_read) < sample_size

\* get_file_partial_hash: MD5 is taken to be injective, so the hex digest is
\* modelled by the bytes that were hashed; some is FALSE for None, which is
\* what an exception yields, after one log_warning.
get_file_partial_hash(file, sample_size) ==
    IF hash_raises(file, sample_size) THEN NoHash
    ELSE [some |-> TRUE,
          hex |-> hash_input(file_size_of(file), file.at_read, sample_size)]

hash_warnings(file) == IF hash_raises(file, SampleSize) THEN 1 ELSE 0

(***************************************************************************)
(* The library on disk.                                                    *)
(*                                                                         *)
(* dir is what root_path.iterdir() yields, in the order it yields it.  An  *)
(* element is a record                                                     *)
(*   name      the name of the directory entry (its path below the root)   *)
(*   is_dir    whether it is a directory                                   *)
(*   listable  whether iterdir() on it succeeds; when it does not, it      *)
(*             raises inside the detector's try block (a stat() that       *)
(*             raises there does the same)                                 *)
(*   files     what iterdir() on it yields                                 *)
(***************************************************************************)
VARIABLES
    config,           \* the global Config: mediainfo_path set and existing
    dir,              \* the root directory
    op,               \* the function that was called
    pc,               \* where that call stands
    i,                \* the loop index of the scan over movie_folders
    entries,          \* the entry dicts built so far, in creation order
    title_lookup,     \* dict: title key -> list of entries (by index)
    hash_lookup,      \* dict: fingerprint -> list of entries (by index)
    processed_paths,  \* the set processed_paths
    duplicates,       \* the list duplicates (groups of entry indices)
    result,           \* what the detector returned: a list of lists of entries
    report,           \* the groups as the report prints them, first is [KEEP]
    stats,            \* the global Stats: warnings and errors
    log,              \* the records the logger received
    raw_name,         \* the argument of get_normalized_title
    title_info,       \* what get_normalized_title returned
    scored_name,      \* the filename argument of get_quality_score
    scored_file,      \* the file its file_path argument names
    hashed_file,      \* the file get_file_partial_hash is called for
    digest,           \* what get_file_partial_hash returned
    parsed_name,      \* the argument of get_episode_info
    ep_info,          \* the dict get_episode_info returned (ep_info, line 1797)
    failed_operations,\* the global list failed_operations
    attempted,        \* per operation, the delays slept before its attempts
    library,          \* the files and folders under the path processed
    tally             \* the counters of the global Stats the steps add to

vars == <<config, dir, op, pc, i, entries, title_lookup, hash_lookup,
          processed_paths, duplicates, result, report, stats, log,
          raw_name, title_info, scored_name, scored_file, scored, calls,
          hashed_file, digest, parsed_name, ep_info, failed_operations, attempted,
          library, tally>>

\* What the calls of get_quality_score and get_file_partial_hash work on.
scorer_vars == <<scored_name, scored_file, scored, calls>>

hash_vars == <<hashed_file, digest>>

\* What get_episode_info, and what the processing steps and the retries,
\* work on.
episode_vars == <<parsed_name, ep_info>>

process_vars == <<failed_operations, attempted, library, tally>>

\* Python's None where the code otherwise holds a number, which is never
\* negative.
NoNumber == -1

\* info as get_episode_info creates it (lines 1350-1357).
info_fresh ==
    [season |-> NoNumber, episode |-> NoNumber, episodes |-> <<>>,
     show_title |-> None, episode_title |-> None, is_multi_episode |-> FALSE]

\* Stats() (lines 186-206): the counters the processing steps add to.
Stats ==
    [files_deleted |-> 0, bytes_deleted |-> 0, files_moved |-> 0,
     trailers_moved |-> 0, folders_created |-> 0, folders_renamed |-> 0,
     subtitles_deleted |-> 0, archives_extracted |-> 0,
     empty_folders_removed |-> 0, operations_retried |-> 0,
     subtitles_processed |-> 0, archives_failed |-> 0]

\* The state of the functions a specification does not call.
NoEpisodeCall == parsed_name = <<>> /\ ep_info = info_fresh

NoProcessing ==
    /\ failed_operations = <<>>
    /\ attempted = <<>>
    /\ library = {}
    /\ tally = Stats

detector_vars == <<config, dir, op, i, entries, title_lookup, hash_lookup,
                   processed_paths, duplicates, result, report, stats, log>>

\* Path(name).suffix
path_suffix(fname) ==
    LET dots == {k \in 1..Len(fname) : fname[k] = "."}
        j == IF dots = {} THEN 0 ELSE Max(dots)
    IN IF 1 < j /\ j < Len(fname) THEN Suffix(fname, j) ELSE <<>>

\* f.is_file() alone, whatever the suffix is.
is_video_file_any(f) == f.is_file

\* f.is_file() and f.suffix.lower() in config.video_extensions
is_video_file(f) == f.is_file /\ lower(path_suffix(f.name)) \in video_extensions

video_files_of(folder) == SelectSeq(folder.files, is_video_file)

\* max(video_files, key=lambda f: f.stat().st_size): the first file of the
\* largest size.
is_largest(files, k) ==
    \A m \in 1..Len(files) : file_size_of(files[m]) <= file_size_of(files[k])

max_by_size(files) ==
    files[CHOOSE k \in 1..Len(files) :
             is_largest(files, k) /\ \A m \in 1..(k - 1) : ~is_largest(files, m)]

\* [f for f in root_path.iterdir() if f.is_dir() and f.name != '_Trailers']
movie_folders_of(d) ==
    SelectSeq(d, LAMBDA f : f.is_dir /\ f.name # s_us_Trailers)

\* The title key: "<title>|<year>" when there is a year, else "<title>".
title_key(info) ==
    IF info.year # None
    THEN info.normalized_title \o <<"|">> \o info.year
    ELSE info.normalized_title

\* A dict is the sequence of its items, in insertion order.
dict_find(d, key) ==
    IF \E k \in 1..Len(d) : d[k].key = key
    THEN CHOOSE k \in 1..Len(d) : d[k].key = key
    ELSE 0

\* if key not in d: d[key] = []   followed by   d[key].append(x)
dict_append(d, key, x) ==
    LET k == dict_find(d, key)
    IN IF k = 0 THEN Append(d, [key |-> key, val |-> <<x>>])
       ELSE [d EXCEPT ![k].val = Append(@, x)]

LogRecord(level, msg, about) == [level |-> level, msg |-> msg, about |-> about]

\* The state of one scan: what the loop over movie_folders has built, the
\* log_warning calls made, and whether an exception left the loop.
ScanState(es, tl, hl, warnings, lg, raised) ==
    [entries |-> es, title_lookup |-> tl, hash_lookup |-> hl,
     warnings |-> warnings, log |-> lg, raised |-> raised]

\* if not video_files: continue
skips_folder(video_files) == video_files = <<>>

\* The entry dict of one folder and its insertion into the two lookups
\* (lines 615-639), with the log_warning calls made on the way.
add_entry(st, folder, video_file, info, quality, qw, file_hash, hw) ==
    [entries |->
         Append(st.entries,
                [path |-> folder.name,
                 original_name |-> folder.name,
                 year |-> info.year,
                 quality |-> quality,
                 file_size |-> file_size_of(video_file),
                 file_path |-> video_file.name,
                 file_hash |-> file_hash,
                 match_type |-> <<>>]),
     title_lookup |->
         dict_append(st.title_lookup, title_key(info), Len(st.entries) + 1),
     hash_lookup |->
         IF file_hash.some
         THEN dict_append(st.hash_lookup, file_hash.hex, Len(st.entries) + 1)
         ELSE st.hash_lookup,
     warnings |-> st.warnings + qw + hw,
     log |-> st.log
         \o (IF qw > 0
             THEN <<LogRecord("warning", "Error getting MediaInfo", folder.name)>>
             ELSE <<>>)
         \o (IF hw > 0
             THEN <<LogRecord("warning", "Error calculating hash", folder.name)>>
             ELSE <<>>),
     raised |-> FALSE]

\* Lines 607-613 for the primary video file of a folder.
scan_video(cfg, st, folder, video_file) ==
    add_entry(st, folder, video_file,
              get_normalized_title(folder.name),
              get_quality_score(cfg, folder.name, video_file),
              quality_warnings(cfg, video_file),
              get_file_partial_hash(video_file, SampleSize),
              hash_warnings(video_file))

\* Lines 604-607: the folder is left out, or its largest video is scanned.
scan_videos(cfg, st, folder, video_files) ==
    IF skips_folder(video_files) THEN st
    ELSE scan_video(cfg, st, folder, max_by_size(video_files))

\* The body of the scan loop of find_duplicate_movies_enhanced, for one
\* folder (lines 601-639).
scan_folder(cfg, st, folder) ==
    IF ~folder.listable
    THEN [st EXCEPT !.raised = TRUE]
    ELSE scan_videos(cfg, st, folder, video_files_of(folder))

\* entry['match_type'].append(tag) for every entry of group.
tag_all(es, group, tag) ==
    [n \in 1..Len(es) |->
        IF n \in Range(group)
        THEN [es[n] EXCEPT !.match_type = Append(@, tag)]
        ELSE es[n]]

\* The test of the first pass: len(entries) > 1.
is_hash_group(bucket) == Len(bucket) > 1

\* A hash group whose paths are not marked as processed.
hash_bucket_unmarked(acc, bucket) ==
    IF is_hash_group(bucket)
    THEN [entries |-> tag_all(acc.entries, bucket, "ExactHash"),
          processed_paths |-> acc.processed_paths,
          duplicates |-> Append(acc.duplicates, bucket)]
    ELSE acc

\* The first pass (lines 648-653), from bucket k of hash_lookup on.
RECURSIVE hash_pass(_, _, _)
hash_bucket(acc, bucket) ==
    IF is_hash_group(bucket)
    THEN [entries |-> tag_all(acc.entries, bucket, "ExactHash"),
          processed_paths |-> acc.processed_paths
              \cup {acc.entries[n].path : n \in Range(bucket)},
          duplicates |-> Append(acc.duplicates, bucket)]
    ELSE acc

hash_pass(hl, k, acc) ==
    IF k > Len(hl) THEN acc
    ELSE hash_pass(hl, k + 1, hash_bucket(acc, hl[k].val))

RECURSIVE SumSizes(_, _)
SumSizes(es, group) ==
    IF group = <<>> THEN 0
    ELSE es[Head(group)].file_size + SumSizes(es, Tail(group))

Abs(x) == IF x < 0 THEN -x ELSE x

\* abs(entry['file_size'] - avg_size) / avg_size < 0.1 with
\* avg_size = total / count and total > 0, in exact arithmetic.
similar_size(file_size, total, count) ==
    Abs(count * file_size - total) * 10 < total

\* The whole bucket, with the entries the first pass has processed.
unprocessed_of_all(es, bucket, processed) == bucket

\* [e for e in entries if e['path'] not in processed_paths]
unprocessed_of(es, bucket, processed) ==
    SelectSeq(bucket, LAMBDA n : es[n].path \notin processed)

\* The test len(unprocessed) >= 1, which lets a bucket of one through.
is_title_group_of_one(unprocessed) == Len(unprocessed) >= 1

\* The test of the second pass: len(unprocessed) > 1.
is_title_group(unprocessed) == Len(unprocessed) > 1

\* The inner loop with the size of the first entry of the group in the
\* place of the mean size.
tag_title_group_by_first(es, group, total) ==
    [n \in 1..Len(es) |->
        IF n \in Range(group)
        THEN [es[n] EXCEPT !.match_type =
                 @ \o <<"TitleMatch">>
                   \o (IF similar_size(es[n].file_size,
                                       Len(group) * es[Head(group)].file_size,
                                       Len(group))
                       THEN <<"SimilarSize">> ELSE <<>>)]
        ELSE es[n]]

\* The inner loop of the second pass (lines 659-665) for a group whose
\* sizes sum to total > 0.
tag_title_group(es, group, total) ==
    [n \in 1..Len(es) |->
        IF n \in Range(group)
        THEN [es[n] EXCEPT !.match_type =
                 @ \o <<"TitleMatch">>
                   \o (IF similar_size(es[n].file_size, total, Len(group))
                       THEN <<"SimilarSize">> ELSE <<>>)]
        ELSE es[n]]

\* One bucket of title_lookup in the second pass.  When the sizes of the
\* group sum to 0, avg_size is 0.0 and the division raises
\* ZeroDivisionError for the first entry of the group, after its TitleMatch
\* tag was appended.
title_group(acc, unprocessed, total) ==
    IF ~is_title_group(unprocessed) THEN acc
    ELSE IF total = 0
    THEN [acc EXCEPT !.entries = tag_all(@, <<Head(unprocessed)>>, "TitleMatch"),
                     !.raised = TRUE]
    ELSE [entries |-> tag_title_group(acc.entries, unprocessed, total),
          duplicates |-> Append(acc.duplicates, unprocessed),
          raised |-> FALSE]

title_bucket(acc, unprocessed) ==
    title_group(acc, unprocessed, SumSizes(acc.entries, unprocessed))

\* The second pass (lines 656-667), from bucket k of title_lookup on.
RECURSIVE title_pass(_, _, _, _)
title_pass(tl, k, processed, acc) ==
    IF k > Len(tl) \/ acc.raised THEN acc
    ELSE title_pass(tl, k + 1, processed,
            title_bucket(acc, unprocessed_of(acc.entries, tl[k].val, processed)))

\* The entries of a list of groups of entry indices.
groups_of(es, groups) ==
    [g \in 1..Len(groups) |-> [m \in 1..Len(groups[g]) |-> es[groups[g][m]]]]

\* max((f.stat().st_size for f in video_files), default=0) if video_files else 0
largest_size(video_files) ==
    IF video_files # <<>> THEN file_size_of(max_by_size(video_files)) ELSE 0

\* The entry dict of find_duplicate_movies and its insertion (lines
\* 1968-1982); this dict has no file_path, file_hash or match_type key, which
\* are left empty here.
add_entry_basic(st, folder, info, quality, file_size) ==
    [st EXCEPT !.entries =
                   Append(@, [path |-> folder.name,
                              original_name |-> folder.name,
                              year |-> info.year,
                              quality |-> quality,
                              file_size |-> file_size,
                              file_path |-> <<>>,
                              file_hash |-> NoHash,
                              match_type |-> <<>>]),
               !.title_lookup = dict_append(@, title_key(info), Len(st.entries) + 1)]

\* The body of the loop of find_duplicate_movies for one folder (lines
\* 1959-1982).
scan_folder_basic(cfg, st, folder) ==
    IF ~folder.listable
    THEN [st EXCEPT !.raised = TRUE]
    ELSE add_entry_basic(st, folder,
                         get_normalized_title(folder.name),
                         get_quality_score(cfg, folder.name, NoPath),
                         largest_size(video_files_of(folder)))

\* The test of find_duplicate_movies: len(entries) > 1.
is_basic_group(bucket) == Len(bucket) > 1

\* [entries for entries in title_lookup.values() if len(entries) > 1]
basic_groups(tl) ==
    SelectSeq([k \in 1..Len(tl) |-> tl[k].val], is_basic_group)

\* The order of a sort that puts a later entry of equal score first.
ranks_before_or_level(a, b) == a.quality.score >= b.quality.score

\* Whether a precedes b in sorted(group, key=score, reverse=True).
ranks_before(a, b) == a.quality.score > b.quality.score

\* x put into a list sorted by score, behind every entry that does not rank
\* after it.
insert_sorted(rest, x) ==
    SelectSeq(rest, LAMBDA y : ~ranks_before(x, y))
      \o <<x>>
      \o SelectSeq(rest, LAMBDA y : ranks_before(x, y))

\* sorted(group, key=lambda x: x['quality']['score'], reverse=True): a
\* stable sort, so entries of equal score keep the order of the group.
RECURSIVE sorted_by_score(_)
sorted_by_score(group) ==
    IF group = <<>> THEN <<>>
    ELSE insert_sorted(sorted_by_score(SubSeq(group, 1, Len(group) - 1)),
                       group[Len(group)])

\* Names of the folders, files and name segments the model draws from.
d_The_dot_Matrix_dot_1999_dot_1080p_dot_BluRay == <<"T", "h", "e", ".", "M", "a", "t", "r", "i", "x", ".", "1", "9", "9", "9", ".", "1", "0", "8", "0", "p", ".", "B", "l", "u", "R", "a", "y">>
d_Matrix_sp_lp_1999_rp_sp_1080p_sp_BluRay == <<"M", "a", "t", "r", "i", "x", " ", "(", "1", "9", "9", "9", ")", " ", "1", "0", "8", "0", "p", " ", "B", "l", "u", "R", "a", "y">>
d_Matrix_dot_1999_dot_720p == <<"M", "a", "t", "r", "i", "x", ".", "1", "9", "9", "9", ".", "7", "2", "0", "p">>
d_Heat_dot_1995_dot_DTS_dot_x264 == <<"H", "e", "a", "t", ".", "1", "9", "9", "5", ".", "D", "T", "S", ".", "x", "2", "6", "4">>
d_Heat_sp_lp_1995_rp == <<"H", "e", "a", "t", " ", "(", "1", "9", "9", "5", ")">>
d_Heat_dot_1995_dot_720p == <<"H", "e", "a", "t", ".", "1", "9", "9", "5", ".", "7", "2", "0", "p">>
d_Alien_sp_lp_1979_rp == <<"A", "l", "i", "e", "n", " ", "(", "1", "9", "7", "9", ")">>
d_Alien_dot_1979_dot_720p == <<"A", "l", "i", "e", "n", ".", "1", "9", "7", "9", ".", "7", "2", "0", "p">>
d_Solaris_dot_1972 == <<"S", "o", "l", "a", "r", "i", "s", ".", "1", "9", "7", "2">>
d_Heat_dot_1995_dot_DVDRip == <<"H", "e", "a", "t", ".", "1", "9", "9", "5", ".", "D", "V", "D", "R", "i", "p">>
d_Solaris_dot_1972_dot_DVDRip == <<"S", "o", "l", "a", "r", "i", "s", ".", "1", "9", "7", "2", ".", "D", "V", "D", "R", "i", "p">>
d_Heat_dot_1995_dot_mkv == <<"H", "e", "a", "t", ".", "1", "9", "9", "5", ".", "m", "k", "v">>
f_movie_dot_mkv == <<"m", "o", "v", "i", "e", ".", "m", "k", "v">>
f_sample_dot_mkv == <<"s", "a", "m", "p", "l", "e", ".", "m", "k", "v">>
f_movie_dot_nfo == <<"m", "o", "v", "i", "e", ".", "n", "f", "o">>
f_Heat_dot_MKV == <<"H", "e", "a", "t", ".", "M", "K", "V">>
f_movie_dot_mp4 == <<"m", "o", "v", "i", "e", ".", "m", "p", "4">>
g_The_dot == <<"T", "h", "e", ".">>
g_Matrix == <<"M", "a", "t", "r", "i", "x">>
g_Heat == <<"H", "e", "a", "t">>
g_dot_1999 == <<".", "1", "9", "9", "9">>
g_dot_2049 == <<".", "2", "0", "4", "9">>
g_sp_lp_1999_rp == <<" ", "(", "1", "9", "9", "9", ")">>
g_dot_1080p == <<".", "1", "0", "8", "0", "p">>
g_dot_x264 == <<".", "x", "2", "6", "4">>
g_sp_1995 == <<" ", "1", "9", "9", "5">>
g_dash == <<"-">>
g_12 == <<"1", "2">>

\* A file of the library: content is its bytes when its size is measured,
\* at_read its bytes when it is read; the two differ only for a file that
\* is truncated in between.
File(fname, content, readable, mi) ==
    [name |-> fname, is_file |-> TRUE, content |-> content,
     at_read |-> content, readable |-> readable, mi |-> mi,
     hdrq |-> NoHdrAnswer]

Folder(fname, listable, files) ==
    [name |-> fname, is_dir |-> TRUE, listable |-> listable, files |-> files]

Bytes(b, n) == [k \in 1..n |-> b]

\* A 1080p HEVC file with stereo AAC, as mediainfo reports it.
ProbeAnswer ==
    [run |-> "ok",
     tracks |-> <<Track(s_General, <<>>, 0, 0, <<>>, <<>>, 8000000, 0),
                  Track(s_Video, s_HEVC, 1920, 1080, <<>>, <<>>, 0, 0),
                  Track(s_Audio, s_AAC, 0, 0, <<>>, <<>>, 0, 2)>>]

ProbeGarbage == [run |-> "garbage", tracks |-> <<>>]

\* The directory entries a library is made of.  Two pairs of folders hold
\* byte-identical videos, one video cannot be opened, two are empty files,
\* one folder cannot be listed, two hold no video, one is the trailers
\* folder and one entry is a plain file.
Universe ==
    {Folder(d_The_dot_Matrix_dot_1999_dot_1080p_dot_BluRay, TRUE,
            <<File(f_movie_dot_mkv, Bytes(1, 10), TRUE, NoTracks)>>),
     Folder(d_Matrix_sp_lp_1999_rp_sp_1080p_sp_BluRay, TRUE,
            <<File(f_movie_dot_nfo, Bytes(9, 1), TRUE, NoTracks),
              File(f_movie_dot_mp4, Bytes(2, 11), TRUE, NoTracks)>>),
     Folder(d_Matrix_dot_1999_dot_720p, TRUE,
            <<File(f_movie_dot_mkv, Bytes(1, 10), TRUE, NoTracks)>>),
     Folder(d_Heat_dot_1995_dot_DTS_dot_x264, TRUE,
            <<File(f_movie_dot_mkv, Bytes(2, 11), TRUE, NoTracks)>>),
     Folder(d_Heat_sp_lp_1995_rp, TRUE,
            <<File(f_Heat_dot_MKV, Bytes(3, 13), FALSE, ProbeGarbage)>>),
     Folder(d_Heat_dot_1995_dot_720p, TRUE,
            <<File(f_sample_dot_mkv, Bytes(4, 3), TRUE, NoTracks),
              File(f_movie_dot_mkv, Bytes(4, 11), TRUE, ProbeAnswer)>>),
     Folder(d_Alien_sp_lp_1979_rp, TRUE,
            <<File(f_movie_dot_mkv, <<>>, FALSE, NoTracks)>>),
     Folder(d_Alien_dot_1979_dot_720p, TRUE,
            <<File(f_movie_dot_mkv, <<>>, TRUE, NoTracks)>>),
     Folder(d_Solaris_dot_1972, FALSE, <<>>),
     Folder(d_Heat_dot_1995_dot_DVDRip, TRUE,
            <<File(f_movie_dot_nfo, Bytes(9, 1), TRUE, NoTracks)>>),
     Folder(d_Solaris_dot_1972_dot_DVDRip, TRUE, <<>>),
     Folder(s_us_Trailers, TRUE,
            <<File(f_movie_dot_mkv, Bytes(1, 10), TRUE, NoTracks)>>),
     [name |-> d_Heat_dot_1995_dot_mkv, is_dir |-> FALSE, listable |-> FALSE,
      files |-> <<>>]}

\* The most entries a library directory holds.
MaxFolders == 3

\* The directories: the entries of a directory have distinct names.
Directories ==
    {d \in UNION {[1..n -> Universe] : n \in 0..MaxFolders} :
        \A a, b \in 1..Len(d) : a # b => d[a].name # d[b].name}

\* The result of get_normalized_title before it is called.
NoTitle == [normalized_title |-> <<>>, year |-> None]

(***************************************************************************)
(* The duplicate detectors and their reports.  The logger is set up, as    *)
(* main() does before any command runs.                                    *)
(***************************************************************************)
Init ==
    /\ config \in [mediainfo_path : BOOLEAN]
    /\ dir \in Directories
    /\ op = "none"
    /\ pc = "idle"
    /\ i = 0
    /\ entries = <<>>
    /\ title_lookup = <<>>
    /\ hash_lookup = <<>>
    /\ processed_paths = {}
    /\ duplicates = <<>>
    /\ result = <<>>
    /\ report = <<>>
    /\ stats = [warnings |-> 0, errors |-> 0]
    /\ log = <<>>
    /\ raw_name = <<>>
    /\ title_info = NoTitle
    /\ scored_name = <<>>
    /\ scored_file = NoPath
    /\ scored = quality_fresh
    /\ calls = 0
    /\ hashed_file = NoPath
    /\ digest = NoHash
    /\ NoEpisodeCall
    /\ NoProcessing

movie_folders == movie_folders_of(dir)

\* except Exception as e: log_error(...); return []
Abort(msg) ==
    /\ log' = Append(log, LogRecord("error", msg, <<>>))
    /\ stats' = [stats EXCEPT !.errors = @ + 1]
    /\ result' = <<>>
    /\ pc' = "returned"

\* show_enhanced_duplicate_report up to the scan loop of
\* find_duplicate_movies_enhanced (lines 678, 582-596).
CallEnhanced ==
    /\ pc = "idle"
    /\ op' = "show_enhanced_duplicate_report"
    /\ log' = Append(log, LogRecord("info", "Starting enhanced duplicate scan", <<>>))
    /\ IF movie_folders = <<>>
       THEN /\ result' = <<>>
            /\ pc' = "returned"
            /\ i' = i
       ELSE /\ pc' = "scan"
            /\ i' = 1
            /\ result' = result
    /\ UNCHANGED <<config, dir, entries, title_lookup, hash_lookup,
                   processed_paths, duplicates, report, stats, raw_name, title_info,
                   scorer_vars, hash_vars, episode_vars,
                   process_vars>>

\* What one iteration of the scan loop leaves behind.
Scanned(st) ==
    IF st.raised
    THEN /\ Abort("Error in enhanced duplicate scan")
         /\ UNCHANGED <<i, entries, title_lookup, hash_lookup>>
    ELSE /\ entries' = st.entries
         /\ title_lookup' = st.title_lookup
         /\ hash_lookup' = st.hash_lookup
         /\ stats' = [stats EXCEPT !.warnings = @ + st.warnings]
         /\ log' = log \o st.log
         /\ i' = i + 1
         /\ pc' = IF i = Len(movie_folders) THEN "hash_pass" ELSE "scan"
         /\ result' = result

\* One iteration of the scan loop (lines 598-639).
ScanFolder ==
    /\ pc = "scan"
    /\ op = "show_enhanced_duplicate_report"
    /\ Scanned(scan_folder(config,
                   ScanState(entries, title_lookup, hash_lookup, 0, <<>>, FALSE),
                   movie_folders[i]))
    /\ UNCHANGED <<config, dir, op, processed_paths, duplicates, report,
                   raw_name, title_info,
                   scorer_vars, hash_vars, episode_vars,
                   process_vars>>

\* The first pass over hash_lookup (lines 644-653).
Hashed(acc) ==
    /\ entries' = acc.entries
    /\ processed_paths' = acc.processed_paths
    /\ duplicates' = acc.duplicates

HashPass ==
    /\ pc = "hash_pass"
    /\ Hashed(hash_pass(hash_lookup, 1,
                  [entries |-> entries, processed_paths |-> {},
                   duplicates |-> <<>>]))
    /\ pc' = "title_pass"
    /\ UNCHANGED <<config, dir, op, i, title_lookup, hash_lookup, result,
                   report, stats, log, raw_name, title_info,
                   scorer_vars, hash_vars, episode_vars,
                   process_vars>>

\* What the second pass leaves behind, and the return.
Titled(acc) ==
    /\ entries' = acc.entries
    /\ duplicates' = acc.duplicates
    /\ IF acc.raised
       THEN Abort("Error in enhanced duplicate scan")
       ELSE /\ result' = groups_of(acc.entries, acc.duplicates)
            /\ log' = Append(log,
                   LogRecord("info", "Enhanced duplicate scan found groups", <<>>))
            /\ pc' = "returned"
            /\ stats' = stats

\* The second pass over title_lookup and the return (lines 655-673).
TitlePass ==
    /\ pc = "title_pass"
    /\ Titled(title_pass(title_lookup, 1, processed_paths,
                  [entries |-> entries, duplicates |-> duplicates,
                   raised |-> FALSE]))
    /\ UNCHANGED <<config, dir, op, i, title_lookup, hash_lookup,
                   processed_paths, report, raw_name, title_info,
                   scorer_vars, hash_vars, episode_vars,
                   process_vars>>

\* The report loop of show_enhanced_duplicate_report (lines 680-711): every
\* group in the order it is printed, the first line of a group is [KEEP].
ShowEnhancedDuplicateReport ==
    /\ pc = "returned"
    /\ op = "show_enhanced_duplicate_report"
    /\ report' = [g \in 1..Len(result) |-> sorted_by_score(result[g])]
    /\ pc' = "done"
    /\ UNCHANGED <<config, dir, op, i, entries, title_lookup, hash_lookup,
                   processed_paths, duplicates, result, stats, log,
                   raw_name, title_info,
                   scorer_vars, hash_vars, episode_vars,
                   process_vars>>

\* show_duplicate_report up to the loop of find_duplicate_movies (lines
\* 1995, 1944-1957).
CallBasic ==
    /\ pc = "idle"
    /\ op' = "show_duplicate_report"
    /\ log' = Append(log, LogRecord("info", "Starting duplicate scan", <<>>))
    /\ IF movie_folders = <<>>
       THEN /\ result' = <<>>
            /\ pc' = "returned"
            /\ i' = i
       ELSE /\ pc' = "scan_basic"
            /\ i' = 1
            /\ result' = result
    /\ UNCHANGED <<config, dir, entries, title_lookup, hash_lookup,
                   processed_paths, duplicates, report, stats, raw_name, title_info,
                   scorer_vars, hash_vars, episode_vars,
                   process_vars>>

\* What one iteration of the loop of find_duplicate_movies leaves behind;
\* after the last one, the groups are built and returned (lines 1985-1987).
ScannedBasic(st) ==
    IF st.raised
    THEN /\ Abort("Error scanning for duplicates")
         /\ UNCHANGED <<i, entries, title_lookup, duplicates>>
    ELSE /\ entries' = st.entries
         /\ title_lookup' = st.title_lookup
         /\ i' = i + 1
         /\ UNCHANGED <<stats, log>>
         /\ IF i = Len(movie_folders)
            THEN /\ duplicates' = basic_groups(st.title_lookup)
                 /\ result' = groups_of(st.entries, basic_groups(st.title_lookup))
                 /\ pc' = "returned"
            ELSE /\ UNCHANGED <<duplicates, result>>
                 /\ pc' = "scan_basic"

\* One iteration of the loop of find_duplicate_movies (lines 1959-1982).
ScanFolderBasic ==
    /\ pc = "scan_basic"
    /\ ScannedBasic(scan_folder_basic(config,
                        ScanState(entries, title_lookup, hash_lookup, 0, <<>>, FALSE),
                        movie_folders[i]))
    /\ UNCHANGED <<config, dir, op, hash_lookup, processed_paths, report,
                   raw_name, title_info,
                   scorer_vars, hash_vars, episode_vars,
                   process_vars>>

\* The report loop of show_duplicate_report (lines 1997-2025).
ShowDuplicateReport ==
    /\ pc = "returned"
    /\ op = "show_duplicate_report"
    /\ report' = [g \in 1..Len(result) |-> sorted_by_score(result[g])]
    /\ pc' = "done"
    /\ UNCHANGED <<config, dir, op, i, entries, title_lookup, hash_lookup,
                   processed_paths, duplicates, result, stats, log,
                   raw_name, title_info,
                   scorer_vars, hash_vars, episode_vars,
                   process_vars>>

Next ==
    \/ CallEnhanced
    \/ ScanFolder
    \/ HashPass
    \/ TitlePass
    \/ ShowEnhancedDuplicateReport
    \/ CallBasic
    \/ ScanFolderBasic
    \/ ShowDuplicateReport

Spec == Init /\ [][Next]_vars

\* The same detectors on the libraries of one folder more, made of the six
\* Matrix and Heat folders: such a library can hold two groups.
GroupFolders ==
    {f \in Universe :
        f.name \in {d_The_dot_Matrix_dot_1999_dot_1080p_dot_BluRay,
                    d_Matrix_sp_lp_1999_rp_sp_1080p_sp_BluRay,
                    d_Matrix_dot_1999_dot_720p, d_Heat_dot_1995_dot_DTS_dot_x264,
                    d_Heat_sp_lp_1995_rp, d_Heat_dot_1995_dot_720p}}

GroupDirectories ==
    {d \in [1..(MaxFolders + 1) -> GroupFolders] :
        \A a, b \in 1..Len(d) : a # b => d[a].name # d[b].name}

InitGroups ==
    /\ config \in [mediainfo_path : BOOLEAN]
    /\ dir \in GroupDirectories
    /\ op = "none"
    /\ pc = "idle"
    /\ i = 0
    /\ entries = <<>>
    /\ title_lookup = <<>>
    /\ hash_lookup = <<>>
    /\ processed_paths = {}
    /\ duplicates = <<>>
    /\ result = <<>>
    /\ report = <<>>
    /\ stats = [warnings |-> 0, errors |-> 0]
    /\ log = <<>>
    /\ raw_name = <<>>
    /\ title_info = NoTitle
    /\ scored_name = <<>>
    /\ scored_file = NoPath
    /\ scored = quality_fresh
    /\ calls = 0
    /\ hashed_file = NoPath
    /\ digest = NoHash
    /\ NoEpisodeCall
    /\ NoProcessing

SpecGroups == InitGroups /\ [][Next]_vars

(***************************************************************************)
(* get_normalized_title on its own, over names built from a few segments.  *)
(***************************************************************************)
Segments ==
    {g_The_dot, g_Matrix, g_Heat, g_dot_1999, g_dot_2049, g_sp_lp_1999_rp,
     g_dot_1080p, g_dot_x264, g_sp_1995, g_dash, g_12}

\* The most segments a name is built from.
MaxSegments == 3

RECURSIVE Concat(_)
Concat(ss) == IF ss = <<>> THEN <<>> ELSE Head(ss) \o Concat(Tail(ss))

Names == {Concat(ss) : ss \in UNION {[1..n -> Segments] : n \in 0..MaxSegments}}

InitTitle ==
    /\ raw_name \in Names
    /\ title_info = NoTitle
    /\ pc = "title"
    /\ op = "get_normalized_title"
    /\ config = [mediainfo_path |-> FALSE]
    /\ dir = <<>>
    /\ i = 0
    /\ entries = <<>>
    /\ title_lookup = <<>>
    /\ hash_lookup = <<>>
    /\ processed_paths = {}
    /\ duplicates = <<>>
    /\ result = <<>>
    /\ report = <<>>
    /\ stats = [warnings |-> 0, errors |-> 0]
    /\ log = <<>>
    /\ scored_name = <<>>
    /\ scored_file = NoPath
    /\ scored = quality_fresh
    /\ calls = 0
    /\ hashed_file = NoPath
    /\ digest = NoHash
    /\ NoEpisodeCall
    /\ NoProcessing

\* get_normalized_title(raw_name)
Normalize ==
    /\ pc = "title"
    /\ title_info' = get_normalized_title(raw_name)
    /\ pc' = "normalized"
    /\ UNCHANGED <<raw_name, detector_vars, scorer_vars, hash_vars, episode_vars,
                   process_vars>>

NextTitle == Normalize

SpecTitle == InitTitle /\ [][NextTitle]_vars

(***************************************************************************)
(* get_quality_score on its own: a file name, a file and the answers of    *)
(* the prober on it, scored MaxCalls times in one process.                 *)
(***************************************************************************)
n_Heat == <<"H", "e", "a", "t">>
n_dot_mkv == <<".", "m", "k", "v">>
n_dot_1080p_x264_DTS == <<".", "1", "0", "8", "0", "p", ".", "x", "2", "6", "4", ".", "D", "T", "S">>
n_dot_2160p_HEVC_Atmos_DV_HDR == <<".", "2", "1", "6", "0", "p", ".", "H", "E", "V", "C", ".", "A", "t", "m", "o", "s", ".", "D", "V", ".", "H", "D", "R">>
n_dot_720p_AAC_HDR10_plus == <<".", "7", "2", "0", "p", ".", "A", "A", "C", ".", "H", "D", "R", "1", "0", "+">>
n_dot_DTS_dot_x264 == <<".", "D", "T", "S", ".", "x", "2", "6", "4">>
n_dot_DTS_dash_HD_dot_MA == <<".", "D", "T", "S", "-", "H", "D", ".", "M", "A">>
n_dot_HLG_dot_XviD == <<".", "H", "L", "G", ".", "X", "v", "i", "D">>
n_dot_Remux == <<".", "R", "e", "m", "u", "x">>
n_dot_BluRay == <<".", "B", "l", "u", "R", "a", "y">>
n_dot_BDRip == <<".", "B", "D", "R", "i", "p">>
n_dot_WEB_dash_DL == <<".", "W", "E", "B", "-", "D", "L">>
n_dot_WEBRip == <<".", "W", "E", "B", "R", "i", "p">>
n_dot_HDTV == <<".", "H", "D", "T", "V">>
n_dot_DVDRip == <<".", "D", "V", "D", "R", "i", "p">>
n_dot_BluRay_dot_REMUX == <<".", "B", "l", "u", "R", "a", "y", ".", "R", "E", "M", "U", "X">>
h_Dolby_Vision_2086 == <<"D", "o", "l", "b", "y", " ", "V", "i", "s", "i", "o", "n", " ", "/", " ", "S", "M", "P", "T", "E", " ", "S", "T", " ", "2", "0", "8", "6">>
h_ST_2094_App_4 == <<"S", "M", "P", "T", "E", " ", "S", "T", " ", "2", "0", "9", "4", " ", "A", "p", "p", " ", "4">>
h_HDR_sp_Vivid == <<"H", "D", "R", " ", "V", "i", "v", "i", "d">>
h_BT_dot_709 == <<"B", "T", ".", "7", "0", "9">>
h_AVC == <<"A", "V", "C">>
h_ProRes == <<"P", "r", "o", "R", "e", "s">>
h_E_dash_AC_dash_3 == <<"E", "-", "A", "C", "-", "3">>
h_DTS_sp_XLL_sp_X == <<"D", "T", "S", " ", "X", "L", "L", " ", "X">>
h_MLP_sp_FBA == <<"M", "L", "P", " ", "F", "B", "A">>
h_DTS_HD_MA_DTS_X == <<"D", "T", "S", "-", "H", "D", " ", "M", "A", " ", "D", "T", "S", ":", "X">>

\* The file names scored: a title, the keywords of the attributes, the
\* keywords of the source, the suffix.
ScoreAttributes ==
    {<<>>, n_dot_1080p_x264_DTS, n_dot_2160p_HEVC_Atmos_DV_HDR,
     n_dot_720p_AAC_HDR10_plus, n_dot_HLG_dot_XviD, n_dot_DTS_dot_x264,
     n_dot_DTS_dash_HD_dot_MA}

ScoreSources ==
    {<<>>, n_dot_Remux, n_dot_BluRay, n_dot_BDRip, n_dot_WEB_dash_DL,
     n_dot_WEBRip, n_dot_HDTV, n_dot_DVDRip, n_dot_BluRay_dot_REMUX}

ScoreNames ==
    {n_Heat \o a \o s \o n_dot_mkv : a \in ScoreAttributes, s \in ScoreSources}

\* The JSON answer of mediainfo for a file with one track of each type.
Answer(bitrate, video, width, height, hdr, primaries, audio, channels) ==
    [run |-> "ok",
     tracks |-> <<Track(s_General, <<>>, 0, 0, <<>>, <<>>, bitrate, 0),
                  Track(s_Video, video, width, height, hdr, primaries, 0, 0),
                  Track(s_Audio, audio, 0, 0, <<>>, <<>>, 0, channels)>>]

\* The answers of the three --Inform queries.
HdrAnswer(format, transfer, primaries) ==
    [run |-> "ok", format |-> format, transfer |-> transfer,
     primaries |-> primaries]

\* A regular file and what the prober does on it.
Probed(mi, hdrq) == [File(f_movie_dot_mkv, <<>>, TRUE, mi) EXCEPT !.hdrq = hdrq]

\* A 720p AVC file with DTS in the BT.2020 colour space.
Answer2020 == Answer(12000000, h_AVC, 1280, 720, <<>>, s_BT_dot_2020, s_DTS, 6)

\* A file whose video track names an HDR format.
AnswerHdr(format) == Answer(25000000, s_AV1, 1920, 1080, format, <<>>, h_DTS_sp_XLL_sp_X, 8)

\* The files scored: no path, a path that is no file, files the prober
\* answers on (without HDR, with each HDR format, with a format the prober
\* names that is none of the known ones, flagged HDR without a format, a
\* small ProRes file, a file whose audio is both DTS-HD and DTS:X, a file
\* without a video track), and files the prober
\* fails on (exit code, output that does not parse, no track, an exception
\* in the HDR queries, a process that never exits).
ScoreFiles ==
    {NoPath,
     [Probed(ProbeAnswer, NoHdrAnswer) EXCEPT !.is_file = FALSE],
     Probed(ProbeAnswer, NoHdrAnswer),
     Probed(Answer(45000000, s_HEVC, 3840, 2160, h_Dolby_Vision_2086,
                   s_BT_dot_2020, h_E_dash_AC_dash_3, 6),
            HdrAnswer(h_Dolby_Vision_2086, s_PQ, s_BT_dot_2020)),
     Probed(AnswerHdr(h_ST_2094_App_4), HdrAnswer(h_ST_2094_App_4, <<>>, <<>>)),
     Probed(Answer2020, HdrAnswer(<<>>, s_PQ, s_BT_dot_2020)),
     Probed(Answer2020, HdrAnswer(<<>>, s_HLG, <<>>)),
     Probed(Answer2020, HdrAnswer(<<>>, <<>>, s_BT_dot_2020)),
     Probed(AnswerHdr(h_HDR_sp_Vivid), HdrAnswer(h_HDR_sp_Vivid, <<>>, <<>>)),
     Probed(AnswerHdr(s_HDR10), NoHdrAnswer),
     Probed(AnswerHdr(s_HDR10), [NoHdrAnswer EXCEPT !.run = "raises"]),
     Probed(AnswerHdr(s_HDR10), [NoHdrAnswer EXCEPT !.run = "hangs"]),
     Probed(Answer(0, h_ProRes, 640, 360, <<>>, h_BT_dot_709, h_MLP_sp_FBA, 0),
            NoHdrAnswer),
     Probed(Answer(30000000, h_AVC, 1920, 1080, <<>>, h_BT_dot_709,
                   h_DTS_HD_MA_DTS_X, 8),
            NoHdrAnswer),
     Probed([run |-> "ok",
             tracks |-> <<Track(s_General, <<>>, 0, 0, <<>>, <<>>, 6000000, 0),
                          Track(s_Audio, s_FLAC, 0, 0, <<>>, <<>>, 0, 2)>>],
            NoHdrAnswer),
     Probed(NoTracks, NoHdrAnswer),
     Probed(ProbeGarbage, NoHdrAnswer),
     Probed([run |-> "ok", tracks |-> <<>>], NoHdrAnswer),
     Probed([run |-> "hangs", tracks |-> <<>>], NoHdrAnswer)}

\* The most calls of get_quality_score one process makes on its input.
MaxCalls == 2

InitScore ==
    /\ scored_name \in ScoreNames
    /\ scored_file \in ScoreFiles
    /\ config \in [mediainfo_path : BOOLEAN]
    /\ scored = quality_fresh
    /\ calls = 0
    /\ pc = "score"
    /\ op = "get_quality_score"
    /\ raw_name = <<>>
    /\ title_info = NoTitle
    /\ dir = <<>>
    /\ i = 0
    /\ entries = <<>>
    /\ title_lookup = <<>>
    /\ hash_lookup = <<>>
    /\ processed_paths = {}
    /\ duplicates = <<>>
    /\ result = <<>>
    /\ report = <<>>
    /\ stats = [warnings |-> 0, errors |-> 0]
    /\ log = <<>>
    /\ hashed_file = NoPath
    /\ digest = NoHash
    /\ NoEpisodeCall
    /\ NoProcessing

\* The call returns quality after w calls of log_warning.
ScoreReturned(quality, w) ==
    /\ scored' = quality
    /\ calls' = calls + 1
    /\ stats' = [stats EXCEPT !.warnings = @ + w]
    /\ log' = log \o [k \in 1..w |->
                        LogRecord("warning", "Error getting MediaInfo", scored_name)]
    /\ pc' = IF calls + 1 = MaxCalls THEN "scored" ELSE "score"

\* get_quality_score(scored_name, scored_file), from the call to the return;
\* a call whose prober process never exits does not return.
Score ==
    /\ pc = "score"
    /\ calls < MaxCalls
    /\ ~probe_blocks(config, scored_file)
    /\ ScoreReturned(get_quality_score(config, scored_name, scored_file),
                     quality_warnings(config, scored_file))
    /\ UNCHANGED <<op, config, dir, i, entries, title_lookup, hash_lookup,
                   processed_paths, duplicates, result, report, raw_name,
                   title_info, scored_name, scored_file, hash_vars, episode_vars,
                   process_vars>>

NextScore == Score

SpecScore == InitScore /\ [][NextScore]_vars

\* The same calls for the names without a source keyword, in a process that
\* keeps running: a call that can return does.
InitScoreFair ==
    /\ InitScore
    /\ scored_name \in {n_Heat \o a \o n_dot_mkv : a \in ScoreAttributes}

SpecScoreFair == InitScoreFair /\ [][NextScore]_vars /\ WF_vars(NextScore)

(***************************************************************************)
(* get_file_partial_hash on its own, over every content of at most MaxLen  *)
(* bytes, for files that can or cannot be opened and files that are        *)
(* truncated after their size was measured.                                *)
(***************************************************************************)
\* The most bytes a fingerprinted file holds.
MaxLen == 6

\* The bytes the contents are made of; 53 is the digit 5.
ByteValues == {1, 53}

Contents == UNION {[1..n -> ByteValues] : n \in 0..MaxLen}

\* What is left of a content that is truncated: one of its prefixes.
Truncations(content) == {SubSeq(content, 1, n) : n \in 0..Len(content)}

\* The files of one content: those that can be opened and those that
\* cannot, whole at the read or truncated.
HashFilesOf(c) ==
    {[File(f_movie_dot_mkv, c, r, NoTracks) EXCEPT !.at_read = a] :
        r \in BOOLEAN, a \in Truncations(c)}

InitHash ==
    /\ hashed_file \in UNION {HashFilesOf(c) : c \in Contents}
    /\ digest = NoHash
    /\ NoEpisodeCall
    /\ NoProcessing
    /\ pc = "hash"
    /\ op = "get_file_partial_hash"
    /\ config = [mediainfo_path |-> FALSE]
    /\ raw_name = <<>>
    /\ title_info = NoTitle
    /\ dir = <<>>
    /\ i = 0
    /\ entries = <<>>
    /\ title_lookup = <<>>
    /\ hash_lookup = <<>>
    /\ processed_paths = {}
    /\ duplicates = <<>>
    /\ result = <<>>
    /\ report = <<>>
    /\ stats = [warnings |-> 0, errors |-> 0]
    /\ log = <<>>
    /\ scored_name = <<>>
    /\ scored_file = NoPath
    /\ scored = quality_fresh
    /\ calls = 0

\* The call returns hash after w calls of log_warning.
HashReturned(hash, w) ==
    /\ digest' = hash
    /\ stats' = [stats EXCEPT !.warnings = @ + w]
    /\ log' = log \o [k \in 1..w |->
                        LogRecord("warning", "Error calculating hash",
                                  hashed_file.name)]
    /\ pc' = "hashed"

\* get_file_partial_hash(hashed_file), from the call to the return.
Hash ==
    /\ pc = "hash"
    /\ HashReturned(get_file_partial_hash(hashed_file, SampleSize),
                    hash_warnings(hashed_file))
    /\ UNCHANGED <<op, config, dir, i, entries, title_lookup, hash_lookup,
                   processed_paths, duplicates, result, report, raw_name,
                   title_info, scorer_vars, hashed_file, episode_vars,
                   process_vars>>

NextHash == Hash

SpecHash == InitHash /\ [][NextHash]_vars

(***************************************************************************)
(* The detectors and the report as functions of the directory, built from  *)
(* the same loop bodies and passes the actions take one at a time.         *)
(***************************************************************************)
\* The scan loop (lines 598-639) from folder k on; an exception ends it.
RECURSIVE scan_all(_, _, _, _)
scan_all(cfg, st, folders, k) ==
    IF k > Len(folders) \/ st.raised THEN st
    ELSE scan_all(cfg, scan_folder(cfg, st, folders[k]), folders, k + 1)

\* The second pass started on what the first pass left (lines 655-667).
title_pass_after(tl, hashed) ==
    title_pass(tl, 1, hashed.processed_paths,
               [entries |-> hashed.entries, duplicates |-> hashed.duplicates,
                raised |-> FALSE])

\* return duplicates, or the return [] of the except branch.
returned_groups(acc) ==
    IF acc.raised THEN <<>> ELSE groups_of(acc.entries, acc.duplicates)

\* Lines 643-673 on the lookups of a scan.
groups_after_scan(st) ==
    IF st.raised THEN <<>>
    ELSE returned_groups(
             title_pass_after(st.title_lookup,
                 hash_pass(st.hash_lookup, 1,
                     [entries |-> st.entries, processed_paths |-> {},
                      duplicates |-> <<>>])))

\* find_duplicate_movies_enhanced(path) for a root directory that holds d.
find_duplicate_movies_enhanced(cfg, d) ==
    groups_after_scan(
        scan_all(cfg, ScanState(<<>>, <<>>, <<>>, 0, <<>>, FALSE),
                 movie_folders_of(d), 1))

\* The groups as show_enhanced_duplicate_report prints them.
sorted_groups(groups) ==
    [g \in 1..Len(groups) |-> sorted_by_score(groups[g])]

show_enhanced_duplicate_report(cfg, d) ==
    sorted_groups(find_duplicate_movies_enhanced(cfg, d))

(***************************************************************************)
(* Properties of the duplicate detectors                                   *)
(***************************************************************************)
EnhancedReturned ==
    op = "show_enhanced_duplicate_report" /\ pc \in {"returned", "done"}

BasicReturned ==
    op = "show_duplicate_report" /\ pc \in {"returned", "done"}

\* Whether group g of the returned list holds the entry of folder path.
InGroup(g, path) == \E m \in 1..Len(result[g]) : result[g][m].path = path

\* Whether folder path is returned in group g carrying tag.
InGroupTagged(g, path, tag) ==
    \E m \in 1..Len(result[g]) :
        result[g][m].path = path /\ tag \in Range(result[g][m].match_type)

\* Two scanned entries with the same fingerprint, neither of them None.
SameFingerprint(a, b) ==
    /\ a # b
    /\ entries[a].file_hash.some
    /\ entries[b].file_hash.some
    /\ entries[a].file_hash.hex = entries[b].file_hash.hex

\* The title key of a scanned entry.
KeyOf(e) == title_key(get_normalized_title(e.original_name))

\* C1: once find_duplicate_movies_enhanced has returned, any two scanned
\* entries with the same non-absent fingerprint are members of one and the
\* same returned group, and no other, and both carry the ExactHash tag.
C1_SameFingerprintOneGroup ==
    EnhancedReturned =>
        \A a, b \in 1..Len(entries) :
            SameFingerprint(a, b) =>
                /\ \E g \in 1..Len(result) :
                      /\ InGroupTagged(g, entries[a].path, "ExactHash")
                      /\ InGroupTagged(g, entries[b].path, "ExactHash")
                /\ \A g, h \in 1..Len(result) :
                      InGroup(g, entries[a].path) /\ InGroup(h, entries[b].path)
                          => g = h

\* The folders of the members of a group.
PathsOf(group) == {group[m].path : m \in 1..Len(group)}

\* C2: every group either detector returns has at least two members, which
\* are entries of different folders; no group of size 0 or 1 is emitted.
C2_GroupsHaveTwoMembers ==
    \A g \in 1..Len(result) :
        Len(result[g]) >= 2 /\ Cardinality(PathsOf(result[g])) = Len(result[g])

\* A returned list with a group, next to a scanned entry that is in no group:
\* its bucket of one was not emitted.
C2_Witness ==
    /\ EnhancedReturned
    /\ Len(result) >= 1
    /\ \E a \in 1..Len(entries) : \A g \in 1..Len(result) : ~InGroup(g, entries[a].path)

\* The characters of the names in ascending code-point order.
CodePoints ==
    <<" ", "(", ")", "+", "-", ".", "0", "1", "2", "3", "4", "5", "6", "7", "8",
      "9", ":", "A", "B", "C", "D", "E", "F", "G", "H", "I", "J", "K", "L", "M",
      "N", "O", "P", "Q", "R", "S", "T", "U", "V", "W", "X", "Y", "Z", "[", "]",
      "_", "a", "b", "c", "d", "e", "f", "g", "h", "i", "j", "k", "l", "m", "n",
      "o", "p", "q", "r", "s", "t", "u", "v", "w", "x", "y", "z", "|">>

Ord(c) == CHOOSE k \in 1..Len(CodePoints) : CodePoints[k] = c

\* s < t in lexical order.
LexLess(s, t) ==
    \E k \in 1..(Len(s) + 1) :
        /\ \A j \in 1..(k - 1) : j <= Len(t) /\ s[j] = t[j]
        /\ k <= Len(t)
        /\ (k = Len(s) + 1 \/ Ord(s[k]) < Ord(t[k]))

\* a ranks before b by score, then larger size, then name.
RanksBeforeBySizeAndName(a, b) ==
    \/ a.quality.score > b.quality.score
    \/ /\ a.quality.score = b.quality.score
       /\ a.file_size > b.file_size
    \/ /\ a.quality.score = b.quality.score
       /\ a.file_size = b.file_size
       /\ LexLess(a.original_name, b.original_name)

DirIndex(d, path) == CHOOSE k \in 1..Len(d) : d[k].name = path

Perms(n) == {p \in [1..n -> 1..n] : \A a, b \in 1..n : a # b => p[a] # p[b]}

\* The directory d, enumerated in the order p.
Permuted(d, p) == [k \in 1..Len(d) |-> d[p[k]]]

EnhancedDone == op = "show_enhanced_duplicate_report" /\ pc = "done"

Unordered(groups) == {Range(groups[g]) : g \in 1..Len(groups)}

\* The scores down a ranked group.
Scores(group) == [m \in 1..Len(group) |-> group[m].quality.score]

\* The member labelled KEEP, when one member only holds the highest score.
KeepOf(group) ==
    IF Len(group) >= 2 /\ group[1].quality.score = group[2].quality.score
    THEN <<>> ELSE <<group[1]>>

\* What the reports of the same folders have in common: of every group the
\* set of its members with their tags, the scores down the ranking, and the
\* member labelled KEEP unless several members hold the highest score.
UpToTies(groups) ==
    {[members |-> Range(groups[g]),
      scores |-> Scores(groups[g]),
      keep |-> KeepOf(groups[g])] : g \in 1..Len(groups)}

TitlePassRan == EnhancedReturned /\ i = Len(movie_folders) + 1

\* The scanned entries that share a fingerprint with no other entry.
Unsettled(S) == {n \in S : \A m \in 1..Len(entries) : ~SameFingerprint(n, m)}

RECURSIVE TotalSize(_)
TotalSize(S) ==
    IF S = {} THEN 0
    ELSE LET n == CHOOSE x \in S : TRUE
         IN entries[n].file_size + TotalSize(S \ {n})

\* |size - mean| < mean / 10 for the mean size of the entries S.
WithinTenPercent(size, S) ==
    Abs(Cardinality(S) * size - TotalSize(S)) * 10 < TotalSize(S)

Tags(n) == Range(entries[n].match_type)

\* C5: after the title pass, for every title key with more than one
\* unsettled entry, each unsettled entry of the key is tagged TitleMatch, and
\* is tagged SimilarSize exactly when its size is within 10% of the mean size
\* of those entries.
C5_TitlePassTags ==
    TitlePassRan =>
        \A k \in 1..Len(title_lookup) :
            Cardinality(Unsettled(Range(title_lookup[k].val))) > 1 =>
                \A n \in Unsettled(Range(title_lookup[k].val)) :
                    /\ "TitleMatch" \in Tags(n)
                    /\ "SimilarSize" \in Tags(n)
                           <=> WithinTenPercent(entries[n].file_size,
                                   Unsettled(Range(title_lookup[k].val)))

\* Two scanned entries with equal title keys.
SameTitleKey(a, b) == a # b /\ KeyOf(entries[a]) = KeyOf(entries[b])

\* The detector returned the groups it had built (line 670).
ReturnedItsGroups ==
    /\ EnhancedReturned
    /\ \E k \in 1..Len(log) : log[k].msg = "Enhanced duplicate scan found groups"

Settled(n) == \E m \in 1..Len(entries) : SameFingerprint(n, m)

HasVideoFile(folder) ==
    \E k \in 1..Len(folder.files) :
        /\ folder.files[k].is_file
        /\ lower(path_suffix(folder.files[k].name)) \in video_extensions

\* The fingerprint of the largest video of a folder that can be listed.
FingerprintOf(folder) ==
    get_file_partial_hash(max_by_size(video_files_of(folder)), SampleSize)

\* Two folders of the library whose scan does not fail and whose primary
\* videos have the same fingerprint.
SameFingerprintFolders(f, h) ==
    /\ f.name # h.name
    /\ f.listable /\ HasVideoFile(f)
    /\ h.listable /\ HasVideoFile(h)
    /\ FingerprintOf(f).some
    /\ FingerprintOf(f) = FingerprintOf(h)

\* C7: whatever fails for one entry, the groups the other entries form are
\* returned: two folders that scan without failure and hold videos of the
\* same fingerprint are together in a returned group.
C7_OtherGroupsStillReturned ==
    EnhancedReturned =>
        \A a, b \in 1..Len(movie_folders) :
            SameFingerprintFolders(movie_folders[a], movie_folders[b]) =>
                \E g \in 1..Len(result) :
                    /\ InGroup(g, movie_folders[a].name)
                    /\ InGroup(g, movie_folders[b].name)

\* The folder of a returned entry.
FolderOf(path) == dir[DirIndex(dir, path)]

\* No returned group holds an entry of a folder without a video file.
NoVideolessMember ==
    \A g \in 1..Len(result) : \A m \in 1..Len(result[g]) :
        HasVideoFile(FolderOf(result[g][m].path))

AllVideoless ==
    \A k \in 1..Len(movie_folders) : ~HasVideoFile(movie_folders[k])

NewRecordAbout(folder) ==
    \E k \in (Len(log) + 1)..Len(log') : log'[k].about = folder.name

\* An entry made in this step for the folder.
NewEntryOf(folder) ==
    /\ Len(entries') = Len(entries) + 1
    /\ entries'[Len(entries')].path = folder.name

\* C9: every step of the scan that skips a folder for lacking a video file,
\* that leaves an entry without fingerprint, or that scores an entry from
\* its file name, leaves a trace: a log record, a changed warning or error
\* counter, or an annotation in the entry.
C9_SkipsAndFallbacksLeaveTrace ==
    [][(pc = "scan" /\ movie_folders[i].listable) =>
          /\ ~HasVideoFile(movie_folders[i]) =>
                \/ NewRecordAbout(movie_folders[i])
                \/ stats' # stats
                \/ NewEntryOf(movie_folders[i])
          /\ (NewEntryOf(movie_folders[i])
                /\ ~entries'[Len(entries')].file_hash.some) =>
                \/ NewRecordAbout(movie_folders[i])
                \/ stats' # stats
          /\ (NewEntryOf(movie_folders[i])
                /\ entries'[Len(entries')].quality.data_source # s_MediaInfo) =>
                \/ NewRecordAbout(movie_folders[i])
                \/ entries'[Len(entries')].quality.data_source = s_Filename
      ]_vars

(***************************************************************************)
(* Properties of get_normalized_title                                      *)
(***************************************************************************)
\* Whether a year, four digits that start with 19 or 20, begins at k.
YearTokenAt(name, k) ==
    /\ k + 3 <= Len(name)
    /\ SubSeq(name, k, k + 1) \in {<<"1", "9">>, <<"2", "0">>}
    /\ name[k + 2] \in Digits
    /\ name[k + 3] \in Digits

YearTokens(name) == {k \in 1..Len(name) : YearTokenAt(name, k)}

\* The leftmost year of a name that has one.
LeftmostYear(name) ==
    LET k == CHOOSE x \in YearTokens(name) : \A y \in YearTokens(name) : x <= y
    IN SubSeq(name, k, k + 3)

\* C10: for a name that holds a year, get_normalized_title returns the
\* leftmost one, and a title in which that year does not occur, wherever the
\* year is in the name.
C10_LeftmostYearExtracted ==
    (pc = "normalized" /\ YearTokens(raw_name) # {}) =>
        /\ title_info.year = LeftmostYear(raw_name)
        /\ ~Contains(title_info.normalized_title, LeftmostYear(raw_name))

\* Where the first year of a name begins, an opening bracket right before
\* it included; past the end for a name without a year.
FirstYearCut(name) ==
    IF YearTokens(name) = {} THEN Len(name) + 1
    ELSE LET k == CHOOSE x \in YearTokens(name) : \A y \in YearTokens(name) : x <= y
         IN IF k > 1 /\ name[k - 1] \in {"(", "["} THEN k - 1 ELSE k

\* Where the first quality, source or codec token of a name begins, in any
\* case; past the end for a name without one.
FirstTokenCut(name) ==
    LET at == {k \in 1..Len(name) :
                  \E t \in TitleQualityTags : StartsAt(lower(name), lower(t), k)}
    IN IF at = {} THEN Len(name) + 1
       ELSE CHOOSE x \in at : \A y \in at : x <= y

\* The words of a string: what its separators and blanks leave, lower-cased.
RECURSIVE WordsOf(_, _)
WordsOf(s, word) ==
    IF s = <<>> THEN (IF word = <<>> THEN <<>> ELSE <<word>>)
    ELSE IF s[1] \in {".", "_", "-", " "}
         THEN (IF word = <<>> THEN <<>> ELSE <<word>>) \o WordsOf(Tail(s), <<>>)
         ELSE WordsOf(Tail(s), word \o <<lower_char(s[1])>>)

RECURSIVE JoinWords(_)
JoinWords(ws) ==
    IF ws = <<>> THEN <<>>
    ELSE IF Len(ws) = 1 THEN ws[1]
    ELSE ws[1] \o <<" ">> \o JoinWords(Tail(ws))

\* The words of the title of a name: those before its first year and its
\* first token, without one leading article.
TitleWords(name) ==
    LET cut == Prefix(name, FirstYearCut(name))
        ws == WordsOf(Prefix(cut, FirstTokenCut(cut)), <<>>)
    IN IF Len(ws) > 1 /\ ws[1] \in {<<"t", "h", "e">>, <<"a">>, <<"a", "n">>}
       THEN Tail(ws) ELSE ws

\* The names of two segments.
ShortNames == {a \o b : a, b \in Segments}

\* C11: the title get_normalized_title returns is the pipeline applied to
\* the whole name (cut at the first year and the first quality token,
\* separators to single spaces, trimmed, lower case, one leading article
\* dropped), and a name whose title words differ gets a different title.
C11_TitleOfWholeName ==
    pc = "normalized" =>
        /\ title_info.normalized_title = JoinWords(TitleWords(raw_name))
        /\ \A other \in ShortNames :
              TitleWords(other) # TitleWords(raw_name) =>
                 get_normalized_title(other).normalized_title
                    # title_info.normalized_title

\* The pipeline is the one the code applies to the stem of the name.
TitleIsPipelineOfStem ==
    pc = "normalized" =>
        title_info.normalized_title = JoinWords(TitleWords(PathStem(raw_name)))

(***************************************************************************)
(* Properties of get_quality_score                                         *)
(***************************************************************************)
\* A call of get_quality_score returns in this step.
ScoreCallReturns == calls' = calls + 1

DetailsOf(quality, cat) == SelectSeq(quality.details, LAMBDA d : d.cat = cat)

\* The settings of the prober and the files on which a call returns.
Configs == [mediainfo_path : BOOLEAN]

Answering(cfg) == {f \in ScoreFiles : ~probe_blocks(cfg, f)}

\* The sources in the order they are looked for, with their keywords in the
\* lower-cased file name and their points.
SourceTable ==
    <<[label |-> s_Remux, keys |-> {k_remux}, points |-> 35],
      [label |-> s_BluRay, keys |-> {k_bluray, k_bdrip, k_brrip}, points |-> 30],
      [label |-> s_WEB_DL, keys |-> {k_web_dash_dl}, points |-> 25],
      [label |-> s_WEBRip, keys |-> {k_webrip}, points |-> 20],
      [label |-> s_HDTV, keys |-> {k_hdtv}, points |-> 15],
      [label |-> s_DVDRip, keys |-> {k_dvdrip}, points |-> 10]>>

\* The source and the points of a file name: the first row of the table one
\* of whose keywords it holds.
SourceOfName(filename) ==
    LET hits == {k \in 1..Len(SourceTable) :
                    ContainsAny(lower(filename), SourceTable[k].keys)}
    IN IF hits = {} THEN [label |-> s_Unknown, points |-> <<>>]
       ELSE LET k == CHOOSE x \in hits : \A y \in hits : x <= y
            IN [label |-> SourceTable[k].label,
                points |-> <<SourceTable[k].points>>]

PointsOf(details) == [k \in 1..Len(details) |-> details[k].points]

\* C13: the source label and its points are those of the file name (Remux
\* 35, BluRay/BDRip/BRRip 30, WEB-DL 25, WEBRip 20, HDTV 15, DVDRip 10, the
\* first match in that order), and a call with the same file name returns
\* the same source and source points for every other file and prober answer.
C13_SourceFromFilenameOnly ==
    calls >= 1 =>
        /\ scored.source = SourceOfName(scored_name).label
        /\ PointsOf(DetailsOf(scored, "source")) = SourceOfName(scored_name).points
        /\ \A cfg \in Configs : \A f \in Answering(cfg) :
              \A other \in {get_quality_score(cfg, scored_name, f)} :
                 /\ other.source = scored.source
                 /\ DetailsOf(other, "source") = DetailsOf(scored, "source")

\* A file the prober answered on was scored under a name that holds two
\* source keywords: the first of the table gave the source.
C13_Witness ==
    /\ calls >= 1
    /\ scored.data_source = s_MediaInfo
    /\ Contains(lower(scored_name), k_bluray)
    /\ scored.source = s_Remux

\* Whether the prober returns attributes for a file: mediainfo is installed,
\* the path names a file, the process exits with 0 and its output parses to
\* at least one track.
ProberAnswers(cfg, f) ==
    /\ f.name # <<>>
    /\ f.is_file
    /\ get_mediainfo_details(cfg, f).some

\* What a QualityScore holds about resolution, codec, audio, HDR and
\* bitrate: the fields and the entries of the rationale.
AttributeCategories == {"resolution", "codec", "audio", "hdr_format", "bitrate"}

AttributeDetails(quality) ==
    SelectSeq(quality.details, LAMBDA d : d.cat \in AttributeCategories)

AttributePart(quality) ==
    [resolution |-> quality.resolution, codec |-> quality.codec,
     audio |-> quality.audio, hdr |-> quality.hdr,
     hdr_format |-> quality.hdr_format, bitrate |-> quality.bitrate,
     details |-> AttributeDetails(quality)]

AllVia(details, via) == \A k \in 1..Len(details) : details[k].via = via

\* C14: when the prober returns attributes, data_source names it, every
\* resolution, codec, audio, HDR and bitrate contribution is the prober's
\* and none changes with the keywords of the file name; otherwise
\* data_source is "Filename", every such contribution is a keyword's, there
\* is no bitrate bonus, and none changes with the file or the prober.
C14_OneAttributePath ==
    calls >= 1 =>
        IF ProberAnswers(config, scored_file)
        THEN /\ scored.data_source = s_MediaInfo
             /\ AllVia(AttributeDetails(scored), "MediaInfo")
             /\ \A n \in ScoreNames :
                   AttributePart(get_quality_score(config, n, scored_file))
                      = AttributePart(scored)
        ELSE /\ scored.data_source = s_Filename
             /\ AllVia(AttributeDetails(scored), "Filename")
             /\ DetailsOf(scored, "bitrate") = <<>>
             /\ scored.bitrate = 0
             /\ \A cfg \in Configs : \A f \in Answering(cfg) :
                   ~ProberAnswers(cfg, f) =>
                      AttributePart(get_quality_score(cfg, scored_name, f))
                         = AttributePart(scored)

\* The prober found 1080p HEVC in a file whose name says 2160p, and the
\* name's keywords gave nothing.
C14_Witness ==
    /\ calls >= 1
    /\ scored.data_source = s_MediaInfo
    /\ Contains(lower(scored_name), k_2160p)
    /\ scored.resolution = k_1080p
    /\ Len(DetailsOf(scored, "resolution")) = 1

RECURSIVE SumOf(_)
SumOf(numbers) ==
    IF numbers = <<>> THEN 0 ELSE Head(numbers) + SumOf(Tail(numbers))

\* The score after the first k contributions.
RunningScore(quality, k) == SumOf(PointsOf(SubSeq(quality.details, 1, k)))

ScoreCategories == AttributeCategories \cup {"source"}

\* C15: the score returned is a natural number, the sum of the points of
\* the rationale; the rationale holds at most one contribution for each of
\* resolution, codec, audio, HDR, bitrate and source and none for anything
\* else; and no contribution lowers the score.
C15_ScoreIsSumOfRationale ==
    calls >= 1 =>
        /\ scored.score \in Nat
        /\ scored.score = SumOf(PointsOf(scored.details))
        /\ \A cat \in ScoreCategories : Len(DetailsOf(scored, cat)) <= 1
        /\ \A k \in 1..Len(scored.details) :
              /\ scored.details[k].cat \in ScoreCategories
              /\ RunningScore(scored, k) >= RunningScore(scored, k - 1)

\* A score to which all six categories contributed.
C15_Witness ==
    /\ calls >= 1
    /\ Len(scored.details) = 6
    /\ scored.score > 100

\* The HDR labels and their points.
HdrLabels == {s_Dolby_sp_Vision, s_HDR10_plus, s_HDR10, s_HLG, s_HDR}

HdrLabelPoints(label) ==
    IF label = s_Dolby_sp_Vision THEN 18
    ELSE IF label = s_HDR10_plus THEN 16
    ELSE IF label = s_HDR10 THEN 12
    ELSE 10

\* HDR points are in the rationale exactly when hdr is set.
HdrPointsIffHdr(quality) ==
    quality.hdr <=> DetailsOf(quality, "hdr_format") # <<>>

\* C16: hdr_format is absent or one of Dolby Vision, HDR10+, HDR10, HLG and
\* HDR on both paths; HDR points are awarded exactly when hdr is true, 18,
\* 16, 12, 10 and 10 for the five labels, and 10 when the prober flags HDR
\* and no format is found.
C16_HdrLabelClosed ==
    calls >= 1 =>
        /\ scored.hdr_format = None \/ scored.hdr_format \in HdrLabels
        /\ HdrPointsIffHdr(scored)
        /\ scored.hdr =>
              /\ PointsOf(DetailsOf(scored, "hdr_format"))
                    = <<IF scored.hdr_format = None THEN 10
                        ELSE HdrLabelPoints(scored.hdr_format)>>
              /\ scored.hdr_format = None => scored.data_source = s_MediaInfo

\* The words by which the prober's HDR_Format text is recognised, in lower
\* case.
KnownHdrWords ==
    {lower(s_Dolby_sp_Vision), k_dovi, k_hdr10, k_hlg,
     lower(s_SMPTE_sp_ST_sp_2094), lower(s_SMPTE_sp_ST_sp_2086),
     lower(s_ARIB_sp_STD_dash_B67)}

\* The prober's HDR_Format text of the file scored is none of the known
\* formats.
UnknownHdrText ==
    /\ scored_file.hdrq.format # <<>>
    /\ ~ContainsAny(lower(scored_file.hdrq.format), KnownHdrWords)

\* C16, amended: hdr_format is absent, one of the five labels or, on the
\* prober path, the prober's own HDR_Format text when that text is none of
\* the known formats; HDR points are awarded exactly when hdr is true: the
\* label's points for the five labels, 10 for the prober's own text, and 10
\* when the prober flags HDR and no format is found.
C16_HdrLabelOrProberText ==
    calls >= 1 =>
        /\ \/ scored.hdr_format = None
           \/ scored.hdr_format \in HdrLabels
           \/ /\ scored.data_source = s_MediaInfo
              /\ UnknownHdrText
              /\ scored.hdr_format = scored_file.hdrq.format
        /\ HdrPointsIffHdr(scored)
        /\ scored.hdr =>
              /\ PointsOf(DetailsOf(scored, "hdr_format"))
                    = <<IF scored.hdr_format \in HdrLabels
                        THEN HdrLabelPoints(scored.hdr_format) ELSE 10>>
              /\ scored.hdr_format = None => scored.data_source = s_MediaInfo

\* The prober named a format that is none of the known ones: its text is the
\* label, with 10 points.
C16_Witness ==
    /\ calls >= 1
    /\ scored.hdr
    /\ scored.hdr_format = h_HDR_sp_Vivid
    /\ PointsOf(DetailsOf(scored, "hdr_format")) = <<10>>

\* The prober is unavailable for a file: mediainfo is not installed, there
\* is no path or no file at it, the process exits with an error, or its
\* output is empty or does not parse.
ProberUnavailable(cfg, f) ==
    \/ ~cfg.mediainfo_path
    \/ f.name = <<>>
    \/ ~f.is_file
    \/ f.mi.run \in {"nonzero", "garbage"}
    \/ f.mi.run = "ok" /\ f.mi.tracks = <<>>

\* C17: when the prober is unavailable for the file, get_quality_score
\* returns (it does not raise), the score is the one the file name alone
\* gives, data_source is "Filename", and stats.errors is not touched.
C17_UnavailableProberFallsBack ==
    ProberUnavailable(config, scored_file) =>
        /\ calls < MaxCalls => ENABLED Score
        /\ stats.errors = 0
        /\ calls >= 1 =>
              /\ scored.data_source = s_Filename
              /\ AllVia(AttributeDetails(scored), "Filename")
              /\ scored = get_quality_score([mediainfo_path |-> FALSE],
                                            scored_name, NoPath)

\* mediainfo is installed and its output for the file did not parse: the
\* call left a warning and returned the score of the name.
C17_Witness ==
    /\ calls >= 1
    /\ config.mediainfo_path
    /\ scored_file.mi.run = "garbage"
    /\ stats.warnings >= 1
    /\ scored.score > 0
    /\ scored.data_source = s_Filename

\* C18: a call of get_quality_score returns whatever the prober process
\* does: a process that never answers is given up after a timeout and the
\* file is scored from its name.
C18_ScoringReturns == <>(calls >= 1)

(***************************************************************************)
(* Properties of get_file_partial_hash                                     *)
(***************************************************************************)
\* The file is read as it was measured, and it can be opened.
Intact(file) == file.readable /\ file.at_read = file.content

\* A file of a content, intact.
FileOf(content) == File(f_movie_dot_mkv, content, TRUE, NoTracks)

DigitCodes == <<48, 49, 50, 51, 52, 53, 54, 55, 56, 57>>

\* The bytes of the decimal string of a number.
RECURSIVE DecimalString(_)
DecimalString(n) ==
    (IF n >= 10 THEN DecimalString(n \div 10) ELSE <<>>)
        \o <<DigitCodes[(n % 10) + 1]>>

IsLarge(content) == Len(content) > 2 * SampleSize

FirstSample(content) == SubSeq(content, 1, SampleSize)

LastSample(content) ==
    SubSeq(content, Len(content) - SampleSize + 1, Len(content))

\* Two contents of one size with the same first and last sample.
SameThreeParts(c1, c2) ==
    /\ Len(c1) = Len(c2)
    /\ FirstSample(c1) = FirstSample(c2)
    /\ LastSample(c1) = LastSample(c2)

\* C19: the digest of a file of at most twice the sample size, the boundary
\* included, is taken of its whole content; that of a larger file of its
\* first sample, its last sample and the decimal string of its size, so that
\* larger files that agree on the three get one fingerprint; and what is
\* digested of a small file is never what is digested of a larger one.
C19_DigestInput ==
    (pc = "hashed" /\ Intact(hashed_file)) =>
        \A c \in {hashed_file.content} :
            /\ digest.some
            /\ ~IsLarge(c) => digest.hex = c
            /\ IsLarge(c) =>
                  /\ digest.hex = FirstSample(c) \o LastSample(c)
                                     \o DecimalString(Len(c))
                  /\ \A c2 \in Contents :
                        (IsLarge(c2) /\ SameThreeParts(c, c2)) =>
                           get_file_partial_hash(FileOf(c2), SampleSize) = digest
            /\ \A c2 \in Contents :
                  IsLarge(c2) # IsLarge(c) =>
                     get_file_partial_hash(FileOf(c2), SampleSize).hex # digest.hex

\* A larger file was fingerprinted, and a file with another middle has the
\* same three parts.
C19_Witness ==
    /\ pc = "hashed"
    /\ Intact(hashed_file)
    /\ IsLarge(hashed_file.content)
    /\ digest.some
    /\ \E c2 \in Contents :
          /\ c2 # hashed_file.content
          /\ SameThreeParts(hashed_file.content, c2)

\* The fingerprinting met an I/O failure: the file cannot be opened, or it
\* is shorter at the reads than it was when its size was measured.
IoFailure(file) == ~file.readable \/ file.at_read # file.content

\* C20: an I/O failure while a file is fingerprinted (permission denied,
\* file missing, file truncated between the size measurement and the reads)
\* makes get_file_partial_hash return an absent fingerprint, never a digest.
C20_IoFailureGivesNoFingerprint ==
    (pc = "hashed" /\ IoFailure(hashed_file)) => ~digest.some

\* What does hold: a file that cannot be opened, or of whose larger content
\* less than one sample is left, gets no fingerprint and one warning.
NoFingerprintWhenRaised ==
    (pc = "hashed" /\ hash_raises(hashed_file, SampleSize)) =>
        ~digest.some /\ stats.warnings = 1

\* Under the detector: an entry without a fingerprint is scanned, and is in
\* no entry's hash group.
AbsentFingerprintNotHashGrouped ==
    EnhancedReturned =>
        \A n \in 1..Len(entries) :
            ~entries[n].file_hash.some =>
                \A g \in 1..Len(result) :
                    ~InGroupTagged(g, entries[n].path, "ExactHash")

(***************************************************************************)
(* Properties of the prober's codec tables                                 *)
(***************************************************************************)
\* The video codec the prober reports for a file: the Format of its last
\* video track that has one; <<>> when no video track carries a Format.
ReportedVideoCodec(f) ==
    LET formats == SelectSeq(f.mi.tracks,
                       LAMBDA t : t.type = s_Video /\ t.Format # <<>>)
    IN IF formats = <<>> THEN <<>> ELSE formats[Len(formats)].Format

\* The patterns of the video codecs, as keywords of the lower-cased text,
\* with their points.
VideoCodecTable ==
    <<[keys |-> {k_av1}, points |-> 25],
      [keys |-> {k_hevc, k_h265, k_h_dot_265}, points |-> 20],
      [keys |-> {k_vp9}, points |-> 18],
      [keys |-> {k_avc, k_h264, k_h_dot_264}, points |-> 15],
      [keys |-> {k_mpeg_dash_4, k_divx, k_xvid}, points |-> 5],
      [keys |-> {k_vc_dash_1, k_wmv}, points |-> 8]>>

\* The points of the first row of a table that matches a text; default when
\* no row does.
FirstMatchPoints(table, text, default) ==
    LET hits == {k \in 1..Len(table) : ContainsAny(lower(text), table[k].keys)}
    IN IF hits = {} THEN default
       ELSE table[CHOOSE x \in hits : \A y \in hits : x <= y].points

\* The codec points of a reported codec: the first matching row, else 10.
CodecPointsFor(codec) ==
    PointsOf(DetailsOf(scored, "codec"))
        = <<FirstMatchPoints(VideoCodecTable, codec, 10)>>

\* C23: on the prober path the codec points are those of the first pattern
\* that matches the reported codec (AV1 25, HEVC 20, VP9 18, AVC 15,
\* MPEG-4/DivX/XviD 5, VC-1/WMV 8), 10 when the codec matches none, and a
\* prober result without a video codec gives no codec points and leaves the
\* label "Unknown".
C23_ProberCodecPoints ==
    (calls >= 1 /\ ProberAnswers(config, scored_file)) =>
        \A codec \in {ReportedVideoCodec(scored_file)} :
            IF codec = <<>>
            THEN DetailsOf(scored, "codec") = <<>> /\ scored.codec = s_Unknown
            ELSE CodecPointsFor(codec)

\* What does hold: a reported codec scores as the claim says.
ReportedCodecPoints ==
    (calls >= 1 /\ ProberAnswers(config, scored_file)
                /\ ReportedVideoCodec(scored_file) # <<>>) =>
        CodecPointsFor(ReportedVideoCodec(scored_file))

\* The audio codec the prober reports: the Format of the first audio track.
ReportedAudioCodec(f) ==
    LET audio == SelectSeq(f.mi.tracks, LAMBDA t : t.type = s_Audio)
    IN IF audio # <<>> /\ audio[1].Format # <<>> THEN audio[1].Format ELSE <<>>

\* Whether a text matches the pattern of an audio label.
MatchesAudio(text, label) ==
    IF label = s_DTS THEN re_fullmatch({Lit(k_dts)}, text, TRUE)
    ELSE \E k \in 1..Len(audio_map) :
            audio_map[k].name = label /\ re_search(audio_map[k].pattern, text, TRUE)

\* The audio labels in their priority order, with their points.
AudioPriority ==
    <<[label |-> s_Atmos, points |-> 15], [label |-> s_TrueHD, points |-> 12],
      [label |-> s_DTS_colon_X, points |-> 14],
      [label |-> s_DTS_dash_HD, points |-> 10], [label |-> s_DTS, points |-> 8],
      [label |-> s_EAC3, points |-> 7], [label |-> s_AC3, points |-> 5],
      [label |-> s_AAC, points |-> 3], [label |-> s_FLAC, points |-> 6],
      [label |-> s_Opus, points |-> 4]>>

\* The contribution of a text: the points of the first label of the
\* priority order it matches, none when it matches no label.
AudioPointsOf(text) ==
    LET hits == {k \in 1..Len(AudioPriority) :
                    MatchesAudio(text, AudioPriority[k].label)}
    IN IF text = <<>> \/ hits = {} THEN <<>>
       ELSE <<AudioPriority[CHOOSE x \in hits : \A y \in hits : x <= y].points>>

\* C24: on the prober path the audio contribution is the one of the first
\* pattern that matches in the order Atmos, TrueHD, DTS:X, DTS-HD, DTS,
\* E-AC3, AC3, AAC, FLAC, Opus: a text that is both DTS:X and DTS-HD scores
\* 14, and a text that matches nothing scores nothing.
C24_ProberAudioPriority ==
    (calls >= 1 /\ ProberAnswers(config, scored_file)) =>
        PointsOf(DetailsOf(scored, "audio"))
            = AudioPointsOf(ReportedAudioCodec(scored_file))

\* What does hold: the contribution is the one of the first row of the
\* code's table, in which DTS-HD comes before DTS:X.
ProberAudioFirstRow ==
    (calls >= 1 /\ ProberAnswers(config, scored_file)
                /\ ~(MatchesAudio(ReportedAudioCodec(scored_file), s_DTS_dash_HD)
                       /\ MatchesAudio(ReportedAudioCodec(scored_file), s_DTS_colon_X))) =>
        PointsOf(DetailsOf(scored, "audio"))
            = AudioPointsOf(ReportedAudioCodec(scored_file))

(***************************************************************************)
(* Properties of the audio keywords of a file name                         *)
(***************************************************************************)
\* The name's audio token is plain DTS, followed by a separator and the
\* token of a video codec, and it names no other audio format.
PlainDtsBeforeCodec(f) ==
    /\ \E sep \in {".", " ", "-", "_"} : \E codec \in {k_x264, k_x265} :
          Contains(f, k_dts \o <<sep>> \o codec)
    /\ ~ContainsAny(f, {k_atmos, k_truehd, k_dtsx, k_dts_dash_hd, k_dtshd})

\* C25: on the filename path a name whose audio token is plain DTS, followed
\* by a separator and x264 or x265, is labelled DTS with 8 points, and a name
\* with dts-hd is labelled DTS-HD with 10 points.
C25_FilenameAudioToken ==
    (calls >= 1 /\ scored.data_source = s_Filename) =>
        \A f \in {lower(scored_name)} :
            /\ PlainDtsBeforeCodec(f) =>
                  /\ scored.audio = s_DTS
                  /\ PointsOf(DetailsOf(scored, "audio")) = <<8>>
            /\ (Contains(f, k_dts_dash_hd) /\ ~Contains(f, k_atmos)) =>
                  /\ scored.audio = s_DTS_dash_HD
                  /\ PointsOf(DetailsOf(scored, "audio")) = <<10>>

\* What does hold: a name with dts-hd and without atmos is labelled DTS-HD.
FilenameDtsHd ==
    (calls >= 1 /\ scored.data_source = s_Filename
                /\ Contains(lower(scored_name), k_dts_dash_hd)
                /\ ~Contains(lower(scored_name), k_atmos)) =>
        /\ scored.audio = s_DTS_dash_HD
        /\ PointsOf(DetailsOf(scored, "audio")) = <<10>>

(***************************************************************************)
(* Properties of the passes of find_duplicate_movies_enhanced              *)
(***************************************************************************)
\* The tags an entry had before a step; none for an entry the step adds.
TagsBefore(n) == IF n <= Len(entries) THEN entries[n].match_type ELSE <<>>

\* A step takes a grouping or tagging decision: it forms a group, marks a
\* path as settled or tags an entry.
Decides ==
    \/ duplicates' # duplicates
    \/ processed_paths' # processed_paths
    \/ \E n \in 1..Len(entries') : entries'[n].match_type # TagsBefore(n)

\* Whether entry n is filed under some key of a lookup.
Filed(lookup, n) == \E k \in 1..Len(lookup) : n \in Range(lookup[k].val)

\* Every folder has been visited, every folder with a video has its entry,
\* every entry carries the fingerprint of its video and is in the title
\* index, and in the hash index under its fingerprint when it has one.
IndicesComplete ==
    /\ i = Len(movie_folders) + 1
    /\ \A k \in 1..Len(movie_folders) :
          HasVideoFile(movie_folders[k]) =>
             \E n \in 1..Len(entries) : entries[n].path = movie_folders[k].name
    /\ \A n \in 1..Len(entries) :
          /\ entries[n].file_hash = FingerprintOf(FolderOf(entries[n].path))
          /\ Filed(title_lookup, n)
          /\ entries[n].file_hash.some =>
                \E k \in 1..Len(hash_lookup) :
                    /\ hash_lookup[k].key = entries[n].file_hash.hex
                    /\ n \in Range(hash_lookup[k].val)

\* The paths the hash pass has to mark: those of the entries that share a
\* fingerprint with another entry.
SettledPaths ==
    {entries[n].path : n \in {x \in 1..Len(entries) :
                                 \E m \in 1..Len(entries) : SameFingerprint(x, m)}}

\* C26: a step of find_duplicate_movies_enhanced that groups or tags is taken
\* only when both indices are complete, and it changes neither index; the
\* title pass starts with every settled path marked.
C26_IndicesCompleteBeforeUse ==
    [][op = "show_enhanced_duplicate_report" =>
          /\ Decides =>
                /\ IndicesComplete
                /\ title_lookup' = title_lookup
                /\ hash_lookup' = hash_lookup
                /\ Len(entries') = Len(entries)
          /\ pc = "title_pass" => processed_paths = SettledPaths]_vars

\* The title pass is about to start on three entries, two of which the hash
\* pass has settled.
C26_Witness ==
    /\ op = "show_enhanced_duplicate_report"
    /\ pc = "title_pass"
    /\ Len(entries) = 3
    /\ Cardinality(processed_paths) = 2

\* How often the entry of a folder occurs in the returned groups.
RECURSIVE Occurrences(_, _)
Occurrences(groups, path) ==
    IF groups = <<>> THEN 0
    ELSE Len(SelectSeq(Head(groups), LAMBDA e : e.path = path))
            + Occurrences(Tail(groups), path)

\* C29: the groups one call of find_duplicate_movies_enhanced returns are
\* pairwise disjoint: every scanned entry occurs in at most one group, once.
C29_GroupsDisjoint ==
    EnhancedReturned =>
        /\ \A n \in 1..Len(entries) : Occurrences(result, entries[n].path) <= 1
        /\ \A g, h \in 1..Len(result) :
              g # h => PathsOf(result[g]) \cap PathsOf(result[h]) = {}

\* Two groups were returned, and an entry of the hash group has the title key
\* of an entry of the other group.
C29_Witness ==
    /\ EnhancedReturned
    /\ Len(result) = 2
    /\ \E a, b \in 1..Len(entries) :
          /\ InGroup(1, entries[a].path)
          /\ InGroup(2, entries[b].path)
          /\ KeyOf(entries[a]) = KeyOf(entries[b])

\* The tag lists an entry may carry.
TagLists ==
    {<<>>, <<"ExactHash">>, <<"TitleMatch">>, <<"TitleMatch", "SimilarSize">>}

\* The tags of every entry are one of the four lists, and an entry is tagged
\* exactly when it is a member of a returned group.
TagsMatchGroups ==
    \A n \in 1..Len(entries) :
        /\ entries[n].match_type \in TagLists
        /\ entries[n].match_type # <<>>
              <=> \E g \in 1..Len(result) : InGroup(g, entries[n].path)

TagsOfReturnedGroups ==
    (EnhancedReturned /\ ReturnedItsGroups) => TagsMatchGroups

(***************************************************************************)
(* get_episode_info (lines 1348-1402).  A file name holds no line break,   *)
(* so that . and $ of the patterns match every character and the end.      *)
(***************************************************************************)
\* [.\s_-]
Separators == {".", "_", "-"} \cup Whitespace

\* int() of a string of decimal digits.
RECURSIVE int(_)
int(s) ==
    IF s = <<>> THEN 0
    ELSE 10 * int(SubSeq(s, 1, Len(s) - 1))
           + (CHOOSE n \in 0..9 : str_int(n) = <<s[Len(s)]>>)

\* Whether position p of s holds a character of chars.
HoldsAt(s, p, chars) == p <= Len(s) /\ s[p] \in chars

\* (\d{1,2}) at position p, the next item of the pattern being one character
\* of next: how many digits the group takes, 0 when it cannot match.  Two
\* digits are tried first.
digits_then(s, p, next) ==
    IF HoldsAt(s, p, Digits) /\ HoldsAt(s, p + 1, Digits) /\ HoldsAt(s, p + 2, next)
    THEN 2
    ELSE IF HoldsAt(s, p, Digits) /\ HoldsAt(s, p + 1, next) THEN 1
    ELSE 0

\* (\d{1,2}) at position p with nothing required after it.
digits_at(s, p) ==
    IF HoldsAt(s, p, Digits) /\ HoldsAt(s, p + 1, Digits) THEN 2
    ELSE IF HoldsAt(s, p, Digits) THEN 1
    ELSE 0

\* (?:[Ee-](\d{1,2}))? at position p: how many digits its group takes, 0 when
\* the optional part matches nothing.
extra_at(s, p) ==
    IF HoldsAt(s, p, {"E", "e", "-"}) THEN digits_at(s, p + 1) ELSE 0

\* The first position from p on that holds no separator: where a greedy
\* [.\s_-]+ or \s* that starts at p ends.
RECURSIVE skip(_, _, _)
skip(s, p, chars) ==
    IF HoldsAt(s, p, chars) THEN skip(s, p + 1, chars) ELSE p

\* ^(.+?)[.\s_-]+ followed by a rest that starts with no separator: the
\* lengths group 1 can have, the shortest being the one the match takes.
\* starts(p) tells whether the rest of the pattern matches at position p.
leads(s, starts(_)) ==
    {j \in 1..Len(s) : /\ HoldsAt(s, j + 1, Separators)
                       /\ starts(skip(s, j + 1, Separators))}

shortest(js) == CHOOSE j \in js : \A k \in js : j <= k

\* re.sub(r'\.', ' ', group 1).strip()
show_title_of(s, j) == strip(re_sub_chars({"."}, SubSeq(s, 1, j)))

\* [Ss](\d{1,2})[Ee](\d{1,2}) at position p (pattern 1, line 1362).
season_episode_at(s, p) ==
    /\ HoldsAt(s, p, {"S", "s"})
    /\ digits_then(s, p + 1, {"E", "e"}) > 0
    /\ HoldsAt(s, p + digits_then(s, p + 1, {"E", "e"}) + 2, Digits)

\* (\d{1,2})x(\d{1,2}) at position p (pattern 2, line 1385).
n_x_m_at(s, p) ==
    /\ digits_then(s, p, {"x"}) > 0
    /\ HoldsAt(s, p + digits_then(s, p, {"x"}) + 1, Digits)

k_season == <<"s", "e", "a", "s", "o", "n">>
k_episode == <<"e", "p", "i", "s", "o", "d", "e">>

\* Season\s*(\d{1,2})[.\s_-]+Episode\s*(\d{1,2}) at position p, ignoring case
\* (pattern 3, line 1394): the positions of its two groups, or <<>>.  The
\* digits of the season are followed by a separator, so that the group
\* takes every digit there is.
season_n_episode_m_at(s, p) ==
    LET low == lower(s)
        a == skip(s, p + Len(k_season), Whitespace)
        n == digits_then(s, a, Separators)
        b == skip(s, a + n, Separators)
        c == skip(s, b + Len(k_episode), Whitespace)
    IN IF /\ StartsAt(low, k_season, p)
          /\ n > 0
          /\ StartsAt(low, k_episode, b)
          /\ HoldsAt(s, c, Digits)
       THEN <<a, n, c>>
       ELSE <<>>

e_720p == <<"7", "2", "0", "p">>
e_1080p == <<"1", "0", "8", "0", "p">>
e_2160p == <<"2", "1", "6", "0", "p">>
e_4K == <<"4", "K">>
e_HDTV == <<"H", "D", "T", "V">>
e_WEB_dash_DL == <<"W", "E", "B", "-", "D", "L">>
e_WEBRip == <<"W", "E", "B", "R", "i", "p">>
e_BluRay == <<"B", "l", "u", "R", "a", "y">>
e_x264 == <<"x", "2", "6", "4">>
e_x265 == <<"x", "2", "6", "5">>
e_HEVC == <<"H", "E", "V", "C">>
e_AAC == <<"A", "A", "C">>
e_AC3 == <<"A", "C", "3">>

\* \s*(720p|1080p|...|AC3).*$ (line 1378)
re_release_tail ==
    {<<Star(Whitespace)>> \o Lit(t) :
        t \in {e_720p, e_1080p, e_2160p, e_4K, e_HDTV, e_WEB_dash_DL, e_WEBRip, e_BluRay, e_x264, e_x265, e_HEVC, e_AAC, e_AC3}}

\* The episode title of what follows the episode numbers (lines 1374-1380).
episode_title_of(rest) ==
    LET unled == Suffix(rest, skip(rest, 1, Separators))
        spaced == re_sub_chars({"."}, unled)
        remainder == re_sub_to_end(re_release_tail, spaced, TRUE)
    IN IF rest # <<>> /\ strip(remainder) # <<>> THEN strip(remainder) ELSE None

\* Lines 1363-1382: the result of pattern 1, group 1 being s[1..j].
season_episode_info(s, j) ==
    LET p == skip(s, j + 1, Separators)
        n == digits_then(s, p + 1, {"E", "e"})
        q == p + n + 2
        m == digits_at(s, q)
        r == q + m
        m4 == extra_at(s, r)
        r5 == IF m4 > 0 THEN r + 1 + m4 ELSE r
        m5 == IF m4 > 0 THEN extra_at(s, r5) ELSE 0
        r6 == IF m5 > 0 THEN r5 + 1 + m5 ELSE r5
        episode == int(SubSeq(s, q, q + m - 1))
    IN [season |-> int(SubSeq(s, p + 1, p + n)),
        episode |-> episode,
        episodes |-> <<episode>>
            \o (IF m4 > 0 THEN <<int(SubSeq(s, r + 1, r + m4))>> ELSE <<>>)
            \o (IF m5 > 0 THEN <<int(SubSeq(s, r5 + 1, r5 + m5))>> ELSE <<>>),
        show_title |-> show_title_of(s, j),
        episode_title |-> episode_title_of(Suffix(s, r6)),
        is_multi_episode |-> m4 > 0]

\* Lines 1386-1391: the result of pattern 2.
n_x_m_info(s, j) ==
    LET p == skip(s, j + 1, Separators)
        n == digits_then(s, p, {"x"})
        q == p + n + 1
        episode == int(SubSeq(s, q, q + digits_at(s, q) - 1))
    IN [info_fresh EXCEPT !.show_title = show_title_of(s, j),
                          !.season = int(SubSeq(s, p, p + n - 1)),
                          !.episode = episode,
                          !.episodes = <<episode>>]

\* Lines 1395-1400: the result of pattern 3.
season_n_episode_m_info(s, j) ==
    LET at == season_n_episode_m_at(s, skip(s, j + 1, Separators))
        episode == int(SubSeq(s, at[3], at[3] + digits_at(s, at[3]) - 1))
    IN [info_fresh EXCEPT !.show_title = show_title_of(s, j),
                          !.season = int(SubSeq(s, at[1], at[1] + at[2] - 1)),
                          !.episode = episode,
                          !.episodes = <<episode>>]

\* The patterns with the second tried before the first.
second_then_first(s, first, second, third) ==
    IF second # {} THEN n_x_m_info(s, shortest(second))
    ELSE IF first # {} THEN season_episode_info(s, shortest(first))
    ELSE IF third # {} THEN season_n_episode_m_info(s, shortest(third))
    ELSE info_fresh

\* The patterns in the order the code tries them.
first_match(s, first, second, third) ==
    IF first # {} THEN season_episode_info(s, shortest(first))
    ELSE IF second # {} THEN n_x_m_info(s, shortest(second))
    ELSE IF third # {} THEN season_n_episode_m_info(s, shortest(third))
    ELSE info_fresh

get_episode_info(name) ==
    LET basename == PathStem(name)
        at1(p) == season_episode_at(basename, p)
        at2(p) == n_x_m_at(basename, p)
        at3(p) == season_n_episode_m_at(basename, p) # <<>>
    IN first_match(basename, leads(basename, at1), leads(basename, at2),
                         leads(basename, at3))

(***************************************************************************)
(* get_episode_info on its own, over file names built from a head and a    *)
(* few tails.                                                              *)
(***************************************************************************)
p_Show_dot_Name_dot_S02E05 == <<"S", "h", "o", "w", ".", "N", "a", "m", "e", ".", "S", "0", "2", "E", "0", "5">>
p_Show_sp_S1E1 == <<"S", "h", "o", "w", " ", "S", "1", "E", "1">>
p_Show_dot_1x02 == <<"S", "h", "o", "w", ".", "1", "x", "0", "2">>
p_Show_dot_Season_sp_1_dot_Episode_sp_2 == <<"S", "h", "o", "w", ".", "S", "e", "a", "s", "o", "n", " ", "1", ".", "E", "p", "i", "s", "o", "d", "e", " ", "2">>
p_Show == <<"S", "h", "o", "w">>
p_S01E01 == <<"S", "0", "1", "E", "0", "1">>
p_Show_dot_S123E01 == <<"S", "h", "o", "w", ".", "S", "1", "2", "3", "E", "0", "1">>
p_E06 == <<"E", "0", "6">>
p_dash_07 == <<"-", "0", "7">>
p_dash_E08 == <<"-", "E", "0", "8">>
p_dot_S03E04 == <<".", "S", "0", "3", "E", "0", "4">>
p_dot_2x03 == <<".", "2", "x", "0", "3">>
p_dot_Title == <<".", "T", "i", "t", "l", "e">>
p_dot_720p == <<".", "7", "2", "0", "p">>
p_dot_mkv == <<".", "m", "k", "v">>

EpisodeHeads == {p_Show_dot_Name_dot_S02E05, p_Show_sp_S1E1, p_Show_dot_1x02, p_Show_dot_Season_sp_1_dot_Episode_sp_2, p_Show, p_S01E01, p_Show_dot_S123E01}

EpisodeTails == {p_E06, p_dash_07, p_dash_E08, p_dot_S03E04, p_dot_2x03, p_dot_Title, p_dot_720p, p_dot_mkv}

\* The most tails a file name is built from.
MaxTails == 4

EpisodeNames ==
    {h \o Concat(ts) : h \in EpisodeHeads,
                       ts \in UNION {[1..n -> EpisodeTails] : n \in 0..MaxTails}}

InitEpisode ==
    /\ parsed_name \in EpisodeNames
    /\ ep_info = info_fresh
    /\ pc = "episode"
    /\ op = "get_episode_info"
    /\ config = [mediainfo_path |-> FALSE]
    /\ dir = <<>>
    /\ i = 0
    /\ entries = <<>>
    /\ title_lookup = <<>>
    /\ hash_lookup = <<>>
    /\ processed_paths = {}
    /\ duplicates = <<>>
    /\ result = <<>>
    /\ report = <<>>
    /\ stats = [warnings |-> 0, errors |-> 0]
    /\ log = <<>>
    /\ raw_name = <<>>
    /\ title_info = NoTitle
    /\ scored_name = <<>>
    /\ scored_file = NoPath
    /\ scored = quality_fresh
    /\ calls = 0
    /\ hashed_file = NoPath
    /\ digest = NoHash
    /\ NoProcessing

\* ep_info = get_episode_info(parsed_name)
Parse ==
    /\ pc = "episode"
    /\ ep_info' = get_episode_info(parsed_name)
    /\ pc' = "parsed"
    /\ UNCHANGED <<parsed_name, raw_name, title_info, detector_vars,
                   scorer_vars, hash_vars, process_vars>>

NextEpisode == Parse

SpecEpisode == InitEpisode /\ [][NextEpisode]_vars

(***************************************************************************)
(* Claims about get_episode_info (specification SpecEpisode).              *)
(***************************************************************************)
AnyOne == [cs |-> {}, any |-> TRUE, q |-> "1"]

\* ^(.+?)[.\s_-]+
re_lead == <<AnyOne, AnyStar, One(Separators), Star(Separators)>>

\* The three patterns of lines 1362, 1385 and 1394, for the question whether
\* a stem matches them at all; the optional groups of pattern 1 are part of
\* its trailing (.*).
re_season_episode ==
    {re_lead \o <<One({"S", "s"}), One(Digits), Opt(Digits), One({"E", "e"}),
                  One(Digits), AnyStar>>}

re_n_x_m ==
    {re_lead \o <<One(Digits), Opt(Digits), One({"x"}), One(Digits), AnyStar>>}

re_season_n_episode_m ==
    {re_lead \o Lit(k_season) \o <<Star(Whitespace), One(Digits), Opt(Digits),
                                   One(Separators), Star(Separators)>>
       \o Lit(k_episode) \o <<Star(Whitespace), One(Digits), AnyStar>>}

Parsed == pc = "parsed"

ParsedStem == PathStem(parsed_name)

SeasonEpisodeFamily == re_fullmatch(re_season_episode, ParsedStem, FALSE)

\* The position after the digits of the first episode of a stem of the
\* S<season>E<episode> family.
AfterFirstEpisode(s) ==
    LET j == shortest(leads(s, LAMBDA p : season_episode_at(s, p)))
        p == skip(s, j + 1, Separators)
        q == p + digits_then(s, p + 1, {"E", "e"}) + 2
    IN q + digits_at(s, q)

\* The episode numbers that follow from position r of s on as E<n>, -<n> or
\* -E<n>, however many there are.
RECURSIVE Following(_, _)
Following(s, r) ==
    LET lead == IF HoldsAt(s, r, {"-"}) /\ HoldsAt(s, r + 1, {"E", "e"}) THEN 2
                ELSE IF HoldsAt(s, r, {"E", "e", "-"}) THEN 1
                ELSE 0
        n == digits_at(s, r + lead)
    IN IF lead > 0 /\ n > 0
       THEN <<int(SubSeq(s, r + lead, r + lead + n - 1))>>
              \o Following(s, r + lead + n)
       ELSE <<>>

\* C21: for a name of the S<season>E<episode> family the episodes list is the
\* first episode followed by every episode number that follows it as E<n>,
\* -<n> or -E<n>, in order and however many there are; is_multi_episode is set
\* exactly when the list has more than one element; and no episode marker is
\* left at the head of the episode title.
C21_EveryFollowingEpisode ==
    (Parsed /\ SeasonEpisodeFamily) =>
        /\ ep_info.episodes
             = <<ep_info.episode>>
                 \o Following(ParsedStem, AfterFirstEpisode(ParsedStem))
        /\ ep_info.is_multi_episode <=> Len(ep_info.episodes) > 1
        /\ \/ ep_info.episode_title = None
           \/ Following(ep_info.episode_title, 1) = <<>>

\* What the code does keep: the flag is set exactly when the list has more
\* than one element, and the list holds at most two numbers after the first.
MultiEpisodeFlag ==
    Parsed =>
        /\ ep_info.is_multi_episode <=> Len(ep_info.episodes) > 1
        /\ Len(ep_info.episodes) <= 3

\* C22: get_episode_info returns for every name; the result is the one of
\* the first of the patterns S<n>E<m>, <n>x<m>, "Season <n> Episode <m>" that
\* the stem matches, and has no season, no episode and no episodes when it
\* matches none; season is absent exactly when episodes is empty, and
\* otherwise episodes[0] is episode.
C22_FirstPatternWins ==
    Parsed =>
        /\ \A s \in {ParsedStem} :
             IF re_fullmatch(re_season_episode, s, FALSE)
             THEN ep_info = season_episode_info(s,
                      shortest(leads(s, LAMBDA p : season_episode_at(s, p))))
             ELSE IF re_fullmatch(re_n_x_m, s, FALSE)
             THEN ep_info = n_x_m_info(s,
                      shortest(leads(s, LAMBDA p : n_x_m_at(s, p))))
             ELSE IF re_fullmatch(re_season_n_episode_m, s, TRUE)
             THEN ep_info = season_n_episode_m_info(s,
                      shortest(leads(s, LAMBDA p : season_n_episode_m_at(s, p) # <<>>)))
             ELSE /\ ep_info.season = NoNumber
                  /\ ep_info.episode = NoNumber
                  /\ ep_info.episodes = <<>>
        /\ ep_info.season = NoNumber <=> ep_info.episodes = <<>>
        /\ ep_info.season # NoNumber => ep_info.episodes[1] = ep_info.episode

\* A name that matches both of the first two patterns has been parsed, and
\* the result is the one of the first.
C22_Witness ==
    /\ Parsed
    /\ re_fullmatch(re_season_episode, ParsedStem, FALSE)
    /\ re_fullmatch(re_n_x_m, ParsedStem, FALSE)
    /\ ep_info.season = 2
    /\ ep_info.episodes = <<5>>

(***************************************************************************)
(* add_failed_operation and retry_failed_operations (lines 298-369).       *)
(* An operation is a record of failed_operations; its params are the       *)
(* number of the call of add_failed_operation that recorded it.            *)
(* attempted[params] lists its attempts in order: the delay that           *)
(* time.sleep was called with before it and whether it raised.             *)
(***************************************************************************)
\* Config.retry_count and Config.retry_delay_seconds (lines 117-118), which
\* nothing in the program assigns to.
retry_count == 3

retry_delay_seconds == 2

\* The types add_failed_operation is called with.
OperationTypes == {"Move", "Delete", "Rename"}

\* What an attempt can raise, as str(e) reports it.
Errors == {"PermissionError", "FileNotFoundError"}

\* add_failed_operation(op_type, params, error): the dict it appends.
failed_operation(op_type, params, error) ==
    [type |-> op_type, params |-> params, error |-> error, retry_count |-> 0]

\* Line 331 with the comparison weakened to >.
reached_maximum_late(operation) == operation.retry_count > retry_count

\* Line 331: the operation is not tried again.
reached_maximum(operation) == operation.retry_count >= retry_count

\* One round of the loop of lines 330-361 for operation; outcome is "ok" or
\* what the attempt raises.  run holds still_failed, attempted and
\* stats.operations_retried.
retry_operation(run, operation, outcome) ==
    IF reached_maximum(operation)
    THEN [run EXCEPT !.still_failed = Append(@, operation)]
    ELSE LET tried == [operation EXCEPT !.retry_count = @ + 1]
             delay == retry_delay_seconds * 2 ^ (tried.retry_count - 1)
             slept == [run EXCEPT !.attempted[operation.params] =
                           Append(@, [delay |-> delay, raised |-> outcome # "ok"])]
         IN IF outcome = "ok"
            THEN [slept EXCEPT !.operations_retried = @ + 1]
            ELSE [slept EXCEPT !.still_failed =
                                 Append(@, [tried EXCEPT !.error = outcome])]

\* The loop of lines 330-361 from operation n on.
RECURSIVE retry_from(_, _, _, _)
retry_from(run, operations, outcomes, n) ==
    IF n > Len(operations) THEN run
    ELSE retry_from(retry_operation(run, operations[n], outcomes[n]),
                    operations, outcomes, n + 1)

\* retry_failed_operations(), the attempts having the given outcomes.
retry_failed_operations(operations, done, retried, outcomes) ==
    IF operations = <<>>
    THEN [still_failed |-> operations, attempted |-> done,
          operations_retried |-> retried]
    ELSE retry_from([still_failed |-> <<>>, attempted |-> done,
                     operations_retried |-> retried],
                    operations, outcomes, 1)

(***************************************************************************)
(* The retries on their own: operations fail and are recorded, and         *)
(* retry_failed_operations is called any number of times.                  *)
(***************************************************************************)
\* The most operations that are recorded as failed.
MaxOperations == 3

InitRetry ==
    /\ failed_operations = <<>>
    /\ attempted = <<>>
    /\ library = {}
    /\ tally = Stats
    /\ pc = "idle"
    /\ op = "retry_failed_operations"
    /\ config = [mediainfo_path |-> FALSE]
    /\ dir = <<>>
    /\ i = 0
    /\ entries = <<>>
    /\ title_lookup = <<>>
    /\ hash_lookup = <<>>
    /\ processed_paths = {}
    /\ duplicates = <<>>
    /\ result = <<>>
    /\ report = <<>>
    /\ stats = [warnings |-> 0, errors |-> 0]
    /\ log = <<>>
    /\ raw_name = <<>>
    /\ title_info = NoTitle
    /\ scored_name = <<>>
    /\ scored_file = NoPath
    /\ scored = quality_fresh
    /\ calls = 0
    /\ hashed_file = NoPath
    /\ digest = NoHash
    /\ NoEpisodeCall

\* A step of the processing whose operation raised calls
\* add_failed_operation.
AddFailedOperation ==
    /\ Len(attempted) < MaxOperations
    /\ \E op_type \in OperationTypes, error \in Errors :
         failed_operations' =
             Append(failed_operations,
                    failed_operation(op_type, Len(attempted) + 1, error))
    /\ attempted' = Append(attempted, <<>>)
    /\ UNCHANGED <<library, tally, pc, raw_name, title_info, detector_vars,
                   scorer_vars, hash_vars, episode_vars>>

RetryReturned(run) ==
    /\ failed_operations' = run.still_failed
    /\ attempted' = run.attempted
    /\ tally' = [tally EXCEPT !.operations_retried = run.operations_retried]

\* retry_failed_operations() as process_movies and process_tv_shows call
\* it: when failed_operations is not empty.
RetryFailedOperations ==
    /\ failed_operations # <<>>
    /\ \E outcomes \in [1..Len(failed_operations) -> Errors \cup {"ok"}] :
         RetryReturned(retry_failed_operations(failed_operations, attempted,
                                               tally.operations_retried, outcomes))
    /\ UNCHANGED <<library, pc, raw_name, title_info, detector_vars,
                   scorer_vars, hash_vars, episode_vars>>

NextRetry == AddFailedOperation \/ RetryFailedOperations

SpecRetry == InitRetry /\ [][NextRetry]_vars

(***************************************************************************)
(* Claims about retry_failed_operations (specification SpecRetry).         *)
(***************************************************************************)
\* No operation is attempted more than retry_count times, and no retry_count
\* field exceeds it.
RetriesBounded ==
    /\ \A k \in 1..Len(attempted) : Len(attempted[k]) <= retry_count
    /\ \A n \in 1..Len(failed_operations) :
         failed_operations[n].retry_count <= retry_count

\* The k-th attempt of an operation was preceded by a sleep of
\* retry_delay_seconds * 2^(k-1).
BackedOff ==
    \A k \in 1..Len(attempted) : \A n \in 1..Len(attempted[k]) :
        attempted[k][n].delay = retry_delay_seconds * 2 ^ (n - 1)

\* The step is a call of retry_failed_operations: nothing was recorded.
IsRetryCall == failed_operations # <<>> /\ Len(attempted') = Len(attempted)

\* The operations of ops whose params are in keep, in their order.
RECURSIVE Selected(_, _)
Selected(ops, keep) ==
    IF ops = <<>> THEN <<>>
    ELSE (IF Head(ops).params \in keep THEN <<Head(ops).params>> ELSE <<>>)
           \o Selected(Tail(ops), keep)

\* The operations a call keeps: those that had reached the maximum, and
\* those it attempted and whose attempt raised.
KeptByCall ==
    {failed_operations[n].params : n \in
        {n \in 1..Len(failed_operations) :
            LET k == failed_operations[n].params
            IN \/ failed_operations[n].retry_count >= retry_count
               \/ /\ Len(attempted'[k]) = Len(attempted[k]) + 1
                  /\ attempted'[k][Len(attempted'[k])].raised}}

CallKeepsExactlyTheFailed ==
    IsRetryCall =>
        /\ Selected(failed_operations', 1..Len(attempted))
             = Selected(failed_operations, KeptByCall)
        /\ \A n \in 1..Len(failed_operations) :
             LET k == failed_operations[n].params
             IN Len(attempted'[k]) =
                  Len(attempted[k])
                    + (IF failed_operations[n].retry_count >= retry_count
                       THEN 0 ELSE 1)

\* C28: over any sequence of calls of retry_failed_operations an operation is
\* attempted at most retry_count times and its retry_count never exceeds
\* retry_count; its k-th attempt is preceded by a delay of
\* retry_delay_seconds * 2^(k-1); and a call leaves in failed_operations
\* exactly the operations that had reached the maximum or whose attempt in
\* the call raised, in their order.
C28_RetriesBoundedAndKept ==
    /\ [](RetriesBounded /\ BackedOff)
    /\ [][CallKeepsExactlyTheFailed]_vars

\* One operation has failed retry_count attempts, the last after a delay of
\* 8 seconds, and is still listed; another was removed when its second
\* attempt succeeded.
C28_Witness ==
    \E k, j \in 1..Len(attempted) :
        /\ Len(attempted[k]) = retry_count
        /\ attempted[k][retry_count] = [delay |-> 8, raised |-> TRUE]
        /\ \E n \in 1..Len(failed_operations) :
             /\ failed_operations[n].params = k
             /\ failed_operations[n].retry_count = retry_count
        /\ Len(attempted[j]) = 2
        /\ attempted[j][2] = [delay |-> 4, raised |-> FALSE]
        /\ \A n \in 1..Len(failed_operations) : failed_operations[n].params # j

(***************************************************************************)
(* process_movies and process_tv_shows (lines 2341-2410) and the steps     *)
(* they call (lines 1437-1833).                                            *)
(*                                                                         *)
(* The library is what lies under the path processed:                      *)
(*   items            the files and folders found there, each of the kind  *)
(*                    of the one step that handles it, and its state:      *)
(*                    "found" (where and as it was found), "deleted",      *)
(*                    "moved", "renamed", "extracted" (an archive that    *)
(*                    was unpacked and then deleted), "foldered" (a        *)
(*                    loose video whose folder was made)                   *)
(*   trailers_folder  whether the folder _Trailers exists                  *)
(*   season_folder    whether the season folder of the episodes exists     *)
(* The params of a failed operation are the number of the item it is       *)
(* about.  A step is given the outcome of the operation on each item:      *)
(* "ok" or what it raises.  run holds the library, the counters and        *)
(* failed_operations.                                                      *)
(***************************************************************************)
\* st_size of a file
FileSize == 2

Found(lib, kinds) ==
    {k \in DOMAIN lib.items :
        lib.items[k].kind \in kinds /\ lib.items[k].state = "found"}

\* The library with the items of ks in the given state.
Put(lib, ks, state) ==
    [lib EXCEPT !.items = [k \in DOMAIN @ |->
        IF k \in ks THEN [@[k] EXCEPT !.state = state] ELSE @[k]]]

\* add_failed_operation for the items of ks, in their order.
RECURSIVE Recorded(_, _, _, _)
Recorded(failed, ks, op_type, outcomes) ==
    IF ks = {} THEN failed
    ELSE LET k == CHOOSE j \in ks : \A m \in ks : j <= m
         IN Recorded(Append(failed, failed_operation(op_type, k, outcomes[k])),
                     ks \ {k}, op_type, outcomes)

\* stats.<counter> += n
Add(counts, counter, n) == [counts EXCEPT ![counter] = @ + n]

\* The items of ks a step acts on, and those of them whose operation
\* succeeds and raises: under dry_run it acts on none.
Acted(cfg, ks) == IF cfg.dry_run THEN {} ELSE ks

Succeeded(ks, outcomes) == {k \in ks : outcomes[k] = "ok"}

Raised(ks, outcomes) == {k \in ks : outcomes[k] # "ok"}

\* Line 1561 without the test of dry_run.
makes_trailers_folder_always(cfg, lib) == ~lib.trailers_folder

\* Line 1561: the folder _Trailers is made.
makes_trailers_folder(cfg, lib) == ~cfg.dry_run /\ ~lib.trailers_folder

\* move_trailers_to_folder (lines 1538-1588)
move_trailers_to_folder(cfg, run, outcomes) ==
    LET trailers == Found(run.library, {"trailer"})
        made == makes_trailers_folder(cfg, run.library)
        acted == Acted(cfg, trailers)
        moved == Succeeded(acted, outcomes)
    IN IF trailers = {} THEN run
       ELSE [library |-> Put([run.library EXCEPT !.trailers_folder = @ \/ made],
                             moved, "moved"),
             tally |-> Add(Add(run.tally, "folders_created", IF made THEN 1 ELSE 0),
                           "trailers_moved", Cardinality(moved)),
             failed_operations |->
                 Recorded(run.failed_operations, Raised(acted, outcomes),
                          "Move", outcomes)]

\* remove_unnecessary_files (lines 1437-1483)
remove_unnecessary_files(cfg, run, outcomes) ==
    LET acted == Acted(cfg, Found(run.library, {"sample_folder", "sample_file"}))
        deleted == Succeeded(acted, outcomes)
    IN [library |-> Put(run.library, deleted, "deleted"),
        tally |-> Add(Add(run.tally, "files_deleted", Cardinality(deleted)),
                      "bytes_deleted", FileSize * Cardinality(deleted)),
        failed_operations |->
            Recorded(run.failed_operations, Raised(acted, outcomes),
                     "Delete", outcomes)]

\* process_subtitles (lines 1486-1535): a subtitle is kept when
\* keep_subtitles is set and its language is a preferred one.
process_subtitles(cfg, run, outcomes) ==
    LET subtitles == Found(run.library, {"subtitle", "foreign_subtitle"})
        unwanted == {k \in subtitles :
                        ~(cfg.keep_subtitles /\ run.library.items[k].kind = "subtitle")}
        deleted == Succeeded(Acted(cfg, unwanted), outcomes)
    IN [library |-> Put(run.library, deleted, "deleted"),
        tally |-> Add(Add(Add(run.tally, "subtitles_processed", Cardinality(subtitles)),
                          "subtitles_deleted", Cardinality(deleted)),
                      "bytes_deleted", FileSize * Cardinality(deleted)),
        failed_operations |-> run.failed_operations]

\* extract_archives(path, delete_after=True) (lines 1591-1660): every archive
\* is deleted after the loop, extracted or not.
extract_archives(cfg, run, outcomes) ==
    LET archives == Found(run.library, {"archive"})
        acted == Acted(cfg, archives)
        extracted == Succeeded(acted, outcomes)
    IN IF ~cfg.seven_zip_path \/ archives = {} THEN run
       ELSE [library |-> Put(Put(run.library, acted, "deleted"),
                             extracted, "extracted"),
             tally |-> Add(Add(Add(Add(run.tally,
                           "archives_extracted", Cardinality(extracted)),
                           "archives_failed", Cardinality(Raised(acted, outcomes))),
                           "files_deleted", Cardinality(acted)),
                           "bytes_deleted", FileSize * Cardinality(acted)),
             failed_operations |-> run.failed_operations]

\* create_folders_for_loose_files (lines 1663-1698)
create_folders_for_loose_files(cfg, run, outcomes) ==
    LET acted == Acted(cfg, Found(run.library, {"loose_video"}))
        moved == Succeeded(acted, outcomes)
    IN [library |-> Put(Put(run.library, acted, "foldered"), moved, "moved"),
        tally |-> Add(Add(run.tally, "folders_created", Cardinality(acted)),
                      "files_moved", Cardinality(moved)),
        failed_operations |->
            Recorded(run.failed_operations, Raised(acted, outcomes),
                     "Move", outcomes)]

\* clean_folder_names (lines 1701-1751)
clean_folder_names(cfg, run, outcomes) ==
    LET acted == Acted(cfg, Found(run.library, {"tagged_folder"}))
        renamed == Succeeded(acted, outcomes)
    IN [library |-> Put(run.library, renamed, "renamed"),
        tally |-> Add(run.tally, "folders_renamed", Cardinality(renamed)),
        failed_operations |->
            Recorded(run.failed_operations, Raised(acted, outcomes),
                     "Rename", outcomes)]

\* remove_empty_folders (lines 1753-1779)
remove_empty_folders(cfg, run, outcomes) ==
    LET removed == Succeeded(Acted(cfg, Found(run.library, {"empty_folder"})),
                             outcomes)
    IN [library |-> Put(run.library, removed, "deleted"),
        tally |-> Add(run.tally, "empty_folders_removed", Cardinality(removed)),
        failed_operations |-> run.failed_operations]

\* organize_seasons (lines 1782-1833)
organize_seasons(cfg, run, outcomes) ==
    LET acted == Acted(cfg, Found(run.library, {"episode"}))
        made == acted # {} /\ ~run.library.season_folder
        moved == Succeeded(acted, outcomes)
    IN [library |-> Put([run.library EXCEPT !.season_folder = @ \/ made],
                        moved, "moved"),
        tally |-> Add(Add(run.tally, "folders_created", IF made THEN 1 ELSE 0),
                      "files_moved", Cardinality(moved)),
        failed_operations |-> run.failed_operations]

\* What a retried operation that does not raise does to its item (lines
\* 343-357).
Retried(op_type) ==
    CASE op_type = "Move" -> "moved"
      [] op_type = "Delete" -> "deleted"
      [] op_type = "Rename" -> "renamed"

\* Lines 2372-2373 and 2407-2408: retry_failed_operations() when
\* failed_operations is not empty; retried is what it returns.
retry_step(run, retried) ==
    LET kept == {retried.still_failed[n].params : n \in 1..Len(retried.still_failed)}
        done == {n \in 1..Len(run.failed_operations) :
                     run.failed_operations[n].params \notin kept}
    IN [library |-> [run.library EXCEPT !.items = [k \in DOMAIN @ |->
                        IF \E n \in done : run.failed_operations[n].params = k
                        THEN [@[k] EXCEPT !.state =
                                 Retried((CHOOSE o \in {run.failed_operations[n] : n \in done} :
                                             o.params = k).type)]
                        ELSE @[k]]],
        tally |-> [run.tally EXCEPT !.operations_retried = retried.operations_retried],
        failed_operations |-> retried.still_failed]

(***************************************************************************)
(* One call of process_movies or of process_tv_shows, step by step.  pc    *)
(* names the step that comes next.                                         *)
(***************************************************************************)
\* The most items a library holds.
MaxItems == 2

ItemKinds ==
    {"trailer", "sample_folder", "sample_file", "subtitle", "foreign_subtitle",
     "archive", "loose_video", "tagged_folder", "empty_folder", "episode"}

Libraries ==
    {[items |-> items, trailers_folder |-> t, season_folder |-> FALSE] :
        items \in UNION {[1..n -> {[kind |-> kind, state |-> "found"] :
                                      kind \in ItemKinds}] : n \in 0..MaxItems},
        t \in BOOLEAN}

\* The steps of the two routines in their order (lines 2349-2377 and
\* 2390-2408); the duplicate report that ends process_movies when
\* check_duplicates is set changes none of the variables of the steps.
StepsOf(routine) ==
    IF routine = "process_movies"
    THEN <<"move_trailers_to_folder", "remove_unnecessary_files",
           "process_subtitles", "extract_archives",
           "create_folders_for_loose_files", "clean_folder_names",
           "remove_empty_folders", "retry_failed_operations", "completed">>
    ELSE <<"extract_archives", "remove_unnecessary_files", "process_subtitles",
           "organize_seasons", "remove_empty_folders",
           "retry_failed_operations", "completed">>

StepAfter(routine, step) ==
    LET steps == StepsOf(routine)
    IN steps[1 + CHOOSE n \in 1..Len(steps) : steps[n] = step]

\* An operation that failed before the call and was not retried yet.
Pending(lib) ==
    {<<>>} \cup {<<failed_operation("Delete", 1, "PermissionError")>> :
                    k \in {k \in DOMAIN lib.items : k = 1}}

InitProcess ==
    /\ op \in {"process_movies", "process_tv_shows"}
    /\ pc = StepsOf(op)[1]
    /\ \E dry_run, keep_trailers, keep_subtitles, organize, seven_zip \in BOOLEAN :
         config = [dry_run |-> dry_run, keep_trailers |-> keep_trailers,
                   keep_subtitles |-> keep_subtitles,
                   organize_seasons |-> organize,
                   seven_zip_path |-> seven_zip, mediainfo_path |-> FALSE]
    /\ library \in Libraries
    /\ failed_operations \in Pending(library)
    /\ attempted = [k \in DOMAIN library.items |-> <<>>]
    /\ tally = Stats
    /\ dir = <<>>
    /\ i = 0
    /\ entries = <<>>
    /\ title_lookup = <<>>
    /\ hash_lookup = <<>>
    /\ processed_paths = {}
    /\ duplicates = <<>>
    /\ result = <<>>
    /\ report = <<>>
    /\ stats = [warnings |-> 0, errors |-> 0]
    /\ log = <<>>
    /\ raw_name = <<>>
    /\ title_info = NoTitle
    /\ scored_name = <<>>
    /\ scored_file = NoPath
    /\ scored = quality_fresh
    /\ calls = 0
    /\ hashed_file = NoPath
    /\ digest = NoHash
    /\ NoEpisodeCall

Run == [library |-> library, tally |-> tally,
        failed_operations |-> failed_operations]

\* What the operation on each item does: succeed or raise.
Outcomes == [DOMAIN library.items -> {"ok", "PermissionError"}]

\* The step named here returns with run.
Step(here, run) ==
    /\ pc = here
    /\ library' = run.library
    /\ tally' = run.tally
    /\ failed_operations' = run.failed_operations
    /\ pc' = StepAfter(op, here)
    /\ UNCHANGED <<attempted, raw_name, title_info, detector_vars,
                   scorer_vars, hash_vars, episode_vars>>

\* Lines 2349-2351
MoveTrailers ==
    \E outcomes \in Outcomes :
        Step("move_trailers_to_folder",
             IF config.keep_trailers
             THEN move_trailers_to_folder(config, Run, outcomes)
             ELSE Run)

RemoveUnnecessaryFiles ==
    \E outcomes \in Outcomes :
        Step("remove_unnecessary_files",
             remove_unnecessary_files(config, Run, outcomes))

ProcessSubtitles ==
    \E outcomes \in Outcomes :
        Step("process_subtitles", process_subtitles(config, Run, outcomes))

ExtractArchives ==
    \E outcomes \in Outcomes :
        Step("extract_archives", extract_archives(config, Run, outcomes))

CreateFoldersForLooseFiles ==
    \E outcomes \in Outcomes :
        Step("create_folders_for_loose_files",
             create_folders_for_loose_files(config, Run, outcomes))

CleanFolderNames ==
    \E outcomes \in Outcomes :
        Step("clean_folder_names", clean_folder_names(config, Run, outcomes))

\* Lines 2397-2399
OrganizeSeasons ==
    \E outcomes \in Outcomes :
        Step("organize_seasons",
             IF config.organize_seasons
             THEN organize_seasons(config, Run, outcomes)
             ELSE Run)

RemoveEmptyFolders ==
    \E outcomes \in Outcomes :
        Step("remove_empty_folders", remove_empty_folders(config, Run, outcomes))

RetriedInStep(retried) ==
    /\ library' = retry_step(Run, retried).library
    /\ tally' = retry_step(Run, retried).tally
    /\ failed_operations' = retried.still_failed
    /\ attempted' = retried.attempted

\* Lines 2372-2373 and 2407-2408
RetryInRoutine ==
    /\ pc = "retry_failed_operations"
    /\ \E outcomes \in [1..Len(failed_operations) -> {"ok", "PermissionError"}] :
         RetriedInStep(retry_failed_operations(failed_operations, attempted,
                                               tally.operations_retried, outcomes))
    /\ pc' = StepAfter(op, pc)
    /\ UNCHANGED <<raw_name, title_info, detector_vars, scorer_vars, hash_vars,
                   episode_vars>>

NextProcess ==
    \/ MoveTrailers
    \/ RemoveUnnecessaryFiles
    \/ ProcessSubtitles
    \/ ExtractArchives
    \/ CreateFoldersForLooseFiles
    \/ CleanFolderNames
    \/ OrganizeSeasons
    \/ RemoveEmptyFolders
    \/ RetryInRoutine

SpecProcess == InitProcess /\ [][NextProcess]_vars

(***************************************************************************)
(* Claim about the dry run (specification SpecProcess).                    *)
(***************************************************************************)
ChangeCounters ==
    {"files_deleted", "bytes_deleted", "files_moved", "trailers_moved",
     "folders_created", "folders_renamed", "subtitles_deleted",
     "archives_extracted", "empty_folders_removed", "operations_retried"}

\* C27: with dry_run set and failed_operations empty, no step of
\* process_movies or process_tv_shows changes the library (nothing is
\* deleted, moved, renamed, created or extracted), failed_operations stays
\* empty, and the counters of the changes keep their values.  As
\* failed_operations stays empty, this holds of every step of a call that
\* starts with failed_operations empty.
C27_DryRunChangesNothing ==
    [][(config.dry_run /\ failed_operations = <<>>) =>
          /\ library' = library
          /\ failed_operations' = <<>>
          /\ \A counter \in ChangeCounters : tally'[counter] = tally[counter]]_vars

\* A dry run of process_movies has completed on a library that holds a
\* trailer and a subtitle in another language, with no _Trailers folder and
\* keep_trailers set: both are where they were found, nothing was retried,
\* and only subtitles_processed has counted.
C27_Witness ==
    /\ config.dry_run
    /\ config.keep_trailers
    /\ op = "process_movies"
    /\ pc = "completed"
    /\ library = [items |-> <<[kind |-> "trailer", state |-> "found"],
                              [kind |-> "foreign_subtitle", state |-> "found"]>>,
                  trailers_folder |-> FALSE, season_folder |-> FALSE]
    /\ failed_operations = <<>>
    /\ \A k \in DOMAIN attempted : attempted[k] = <<>>
    /\ tally = [Stats EXCEPT !.subtitles_processed = 1]

=============================================================================
